---------------------------- MODULE Spec2Model ----------------------------
(***************************************************************************)
(* A model of the asynchronous review pipeline of ai-pr-bot:                *)
(*                                                                         *)
(*   - EnhancedAIService.reviewCode and its chunk loop, cost check and      *)
(*     mergeChunkReviews (lib/ai-service/enhanced-ai-service.ts);           *)
(*   - EnhancedContextManager.analyzeAndChunk and its chunking strategies   *)
(*     (lib/ai-service/enhanced-context-manager.ts);                        *)
(*   - QueueManager over Bull queues (lib/queue-system/queue-manager.ts).   *)
(*                                                                         *)
(* Each part has its own specification (SpecReview, SpecPlan, SpecQueue);   *)
(* a specification leaves the variables of the other parts unchanged.       *)
(* RetryManager (lib/ai-service/retry-manager.ts) is modelled from its      *)
(* specification and its use in the service (SpecRetry).                    *)
(* WebhookService.processWebhook and WebhookValidator (lib/webhook) have    *)
(* SpecWebhook.  The queue manager as an event emitter, with its shutdown,  *)
(* has SpecManager; GitHubAuth's token cache (lib/github/auth.ts) has       *)
(* SpecAuth; GitHubClient.withRetry (lib/github/client.ts) has SpecClient;  *)
(* ContextManager.prioritizeChanges has SpecSlice.                          *)
(*                                                                         *)
(* Money is counted in whole cost units (the code adds floating-point USD   *)
(* amounts; the comparisons against the ceiling are the same).              *)
(***************************************************************************)
EXTENDS Integers, Sequences, FiniteSets, TLC

VARIABLES
    \* ---- EnhancedAIService (one reviewCode call on one service instance)
    costLimit,              \* config.costLimit; 0 models "not configured" (falsy)
    enableEnhancedContext,  \* config.enableEnhancedContext
    svcTotalCost,           \* this.totalCost, cumulative over the instance
    pc,                     \* position of the reviewCode call
    mode,                   \* which branch of the call is running
    nChunks,                \* analysis.chunks.length
    cur,                    \* the loop index i (1-based) of the chunk in flight
    reviews,                \* const reviews: Review[]
    totalCost,              \* let totalCost, local to the run
    stoppedByCost,          \* the break of the cumulative cost check was taken
    result,                 \* the Review returned by reviewCode
    error,                  \* the error thrown by reviewCode
    callLog,                \* generateReviewWithRetry calls and their outcomes
    \* ---- EnhancedContextManager.analyzeAndChunk (one call)
    planChanges,            \* changes: CodeChange[]
    planFindings,           \* findings: AnalysisFinding[]
    planForce,              \* options.forceIncludeFiles
    planStrategy,           \* options.strategy; "none" when not given
    planBudget,             \* availableTokens of createChunks
    planPc,                 \* "input" before the call, "planned" after it
    planOut,                \* the value analyzeAndChunk returned
    \* ---- QueueManager and its Bull queues
    concurrency,            \* config.queues[type].concurrency; 0: not configured
    retryAttempts,          \* config.queues[type].retryOptions.attempts; 0: not configured
    processors,             \* the job types of this.processors
    paused,                 \* the job types whose queue is paused
    jobs,                   \* the jobs, by id
    retryCalls,             \* retryFailedJobs calls made so far
    \* ---- RetryManager.executeWithRetry (one call)
    policy,                 \* the retry policy of the manager
    retryPc,                \* position of the executeWithRetry call
    attemptsMade,           \* attempts of the operation that have failed
    invocations,            \* times the operation was invoked
    delays,                 \* the delays slept between attempts, in order
    lastError,              \* the error of the latest failed attempt
    terminalError,          \* the error executeWithRetry threw
    \* ---- WebhookService.processWebhook
    skipValidation,         \* process.env.SKIP_WEBHOOK_VALIDATION === 'true'
    hasQueueManager,        \* a queue manager was given to the constructor
    requests,               \* the webhook requests, by id
    processedEvents,        \* the events the deduplicator has marked as processed
    \* ---- QueueManager: its queue map, shutdown and the events it emits
    queues,                 \* the job types of this.queues
    isShuttingDown,         \* this.isShuttingDown
    shutdownPc,             \* position of the shutdown call that closes the queues
    emitted,                \* the events listeners received about each job, in order
    lastCall,               \* the latest QueueManager call and the error it threw
    \* ---- GitHubAuth and its cache of installation tokens
    now,                    \* Date.now(), in minutes
    installationTokens,     \* expiresAt of the cached token, by installation
    lastAuthCall,           \* the latest GitHubAuth call and how it ended
    \* ---- GitHubClient.withRetry (one call)
    maxRetries,             \* the maxRetries argument
    withRetryPc,            \* position of the withRetry call
    attempt,                \* the loop variable attempt
    operationCalls,         \* times operation() was invoked
    operationError,         \* let lastError: the error of the latest failed invocation
    withRetryOutcome,       \* what withRetry returned or threw
    \* ---- ContextManager.prioritizeChanges (one call)
    ctxChanges,             \* changes: CodeChange[], with their hunks
    ctxFindings,            \* findings: AnalysisFinding[]
    ctxAvailable,           \* getAvailableTokens() - systemPromptTokens
    ctxPc,                  \* "input" before the call, "sliced" after it
    ctxOut                  \* the value prioritizeChanges returned

reviewVars == << costLimit, enableEnhancedContext, svcTotalCost, pc, mode,
                 nChunks, cur, reviews, totalCost, stoppedByCost, result,
                 error, callLog >>

planVars == << planChanges, planFindings, planForce, planStrategy, planBudget,
               planPc, planOut >>

queueVars == << concurrency, retryAttempts, processors, paused, jobs, retryCalls >>

retryVars == << policy, retryPc, attemptsMade, invocations, delays, lastError,
                terminalError >>

webhookVars == << skipValidation, hasQueueManager, requests, processedEvents >>

managerVars == << queues, isShuttingDown, shutdownPc, emitted, lastCall >>

authVars == << now, installationTokens, lastAuthCall >>

clientVars == << maxRetries, withRetryPc, attempt, operationCalls, operationError,
                withRetryOutcome >>

contextVars == << ctxChanges, ctxFindings, ctxAvailable, ctxPc, ctxOut >>

vars == << reviewVars, planVars, queueVars, retryVars, webhookVars, managerVars,
          authVars, clientVars, contextVars >>

\* What each specification leaves alone.
exceptReviewVars == << planVars, queueVars, retryVars, webhookVars,
                       managerVars, authVars, clientVars, contextVars >>
exceptPlanVars == << reviewVars, queueVars, retryVars, webhookVars,
                     managerVars, authVars, clientVars, contextVars >>
exceptQueueVars == << reviewVars, planVars, retryVars, webhookVars,
                      managerVars, authVars, clientVars, contextVars >>
exceptRetryVars == << reviewVars, planVars, queueVars, webhookVars,
                      managerVars, authVars, clientVars, contextVars >>
exceptWebhookVars == << reviewVars, planVars, queueVars, retryVars,
                        managerVars, authVars, clientVars, contextVars >>
exceptManagerVars == << reviewVars, planVars, retryVars, webhookVars,
                        authVars, clientVars, contextVars >>
exceptAuthVars == << reviewVars, planVars, queueVars, retryVars,
                     webhookVars, managerVars, clientVars, contextVars >>
exceptClientVars == << reviewVars, planVars, queueVars, retryVars,
                       webhookVars, managerVars, authVars, contextVars >>
exceptContextVars == << reviewVars, planVars, queueVars, retryVars,
                        webhookVars, managerVars, authVars, clientVars >>

-----------------------------------------------------------------------------
(* Bounds of the review model *)

MaxChunks == 3      \* chunks the planner may return for one request
MaxCost == 2        \* largest cost of one chunk review, in cost units
MaxLimit == 3       \* largest configured cost ceiling
MaxPriorCost == 2   \* largest this.totalCost left by earlier calls
MaxMerged == 3      \* chunk reviews handed to one mergeChunkReviews call
MaxRejected == 2    \* responses parseResponse rejects in one run

-----------------------------------------------------------------------------
(* Reviews *)

Verdicts == {"approve", "comment", "request-changes"}

NoReview == [none |-> TRUE]

\* The Review a chunk request resolves to: the fields the run reads.
\* comments carries the index of the chunk the comments were made on.
ChunkReview(i, v, c) ==
    [ verdict |-> v, comments |-> << i >>, estimatedCost |-> c ]

RECURSIVE SumCost(_)
SumCost(rs) ==
    IF rs = << >> THEN 0 ELSE Head(rs).estimatedCost + SumCost(Tail(rs))

RECURSIVE FlatComments(_)
FlatComments(rs) ==
    IF rs = << >> THEN << >> ELSE Head(rs).comments \o FlatComments(Tail(rs))

VerdictsOf(rs) == { rs[k].verdict : k \in 1..Len(rs) }

\* A plausible slip: the two includes() tests in the wrong order.
OverallVerdictCommentFirst(rs) ==
    IF "comment" \in VerdictsOf(rs) THEN "comment"
    ELSE IF "request-changes" \in VerdictsOf(rs) THEN "request-changes"
    ELSE "approve"

\* mergeChunkReviews: "Determine overall verdict"
OverallVerdict(rs) ==
    IF "request-changes" \in VerdictsOf(rs) THEN "request-changes"
    ELSE IF "comment" \in VerdictsOf(rs) THEN "comment"
    ELSE "approve"

\* mergeChunkReviews for a non-empty list (the empty list throws, see Merge)
mergeChunkReviews(rs) ==
    IF Len(rs) = 1 THEN rs[1]
    ELSE [ verdict |-> OverallVerdict(rs),
           comments |-> FlatComments(rs),
           estimatedCost |-> SumCost(rs) ]

\* Review.metrics.estimatedImpact
Impacts == { "low", "medium", "high", "critical" }

\* Review.metrics of a chunk review: the values the model draws from.
MetricsChoices ==
    { [ issuesFound |-> 0, criticalIssues |-> 0, improvements |-> 1,
        estimatedImpact |-> "low" ],
      [ issuesFound |-> 2, criticalIssues |-> 0, improvements |-> 4,
        estimatedImpact |-> "medium" ],
      [ issuesFound |-> 1, criticalIssues |-> 0, improvements |-> 0,
        estimatedImpact |-> "high" ],
      [ issuesFound |-> 5, criticalIssues |-> 3, improvements |-> 2,
        estimatedImpact |-> "critical" ] }

\* Review.usage of a chunk review (TokenUsage), cost in cost units.
UsageChoices ==
    { [ promptTokens |-> 100, completionTokens |-> 20, totalTokens |-> 120,
        model |-> "gpt-4", estimatedCost |-> 1 ],
      [ promptTokens |-> 350, completionTokens |-> 40, totalTokens |-> 390,
        model |-> "gpt-3.5-turbo", estimatedCost |-> 2 ] }

ReviewsToMerge ==
    UNION { [ 1..n -> [ metrics : MetricsChoices, usage : UsageChoices ] ]
            : n \in 0..MaxMerged }

\* reviews.reduce((sum, r) => sum + ..., 0) over the values picked from the
\* reviews
RECURSIVE Reduce(_, _)
Reduce(values, sum) ==
    IF values = << >> THEN sum ELSE Reduce(Tail(values), sum + Head(values))

\* A plausible slip: the two includes() tests for critical and high swapped.
determineOverallImpactHighFirst(impacts) ==
    IF \E k \in 1..Len(impacts) : impacts[k] = "high" THEN "high"
    ELSE IF \E k \in 1..Len(impacts) : impacts[k] = "critical" THEN "critical"
    ELSE IF \E k \in 1..Len(impacts) : impacts[k] = "medium" THEN "medium"
    ELSE "low"

determineOverallImpact(impacts) ==
    IF \E k \in 1..Len(impacts) : impacts[k] = "critical" THEN "critical"
    ELSE IF \E k \in 1..Len(impacts) : impacts[k] = "high" THEN "high"
    ELSE IF \E k \in 1..Len(impacts) : impacts[k] = "medium" THEN "medium"
    ELSE "low"

\* mergeChunkReviews: "Merge metrics"
mergedMetrics(rs) ==
    [ issuesFound |-> Reduce([ k \in 1..Len(rs) |-> rs[k].metrics.issuesFound ], 0),
      criticalIssues |-> Reduce([ k \in 1..Len(rs) |-> rs[k].metrics.criticalIssues ], 0),
      improvements |-> Reduce([ k \in 1..Len(rs) |-> rs[k].metrics.improvements ], 0),
      estimatedImpact |->
          determineOverallImpact([ k \in 1..Len(rs) |-> rs[k].metrics.estimatedImpact ]) ]

\* mergeChunkReviews: "Calculate total usage"
totalUsage(rs) ==
    [ promptTokens |-> Reduce([ k \in 1..Len(rs) |-> rs[k].usage.promptTokens ], 0),
      completionTokens |-> Reduce([ k \in 1..Len(rs) |-> rs[k].usage.completionTokens ], 0),
      totalTokens |-> Reduce([ k \in 1..Len(rs) |-> rs[k].usage.totalTokens ], 0),
      model |-> rs[1].usage.model,
      estimatedCost |-> Reduce([ k \in 1..Len(rs) |-> rs[k].usage.estimatedCost ], 0) ]

\* mergeChunkReviews, metrics and usage of the Review it returns for a
\* non-empty list
mergeMetricsAndUsage(rs) ==
    IF Len(rs) = 1 THEN rs[1]
    ELSE [ metrics |-> mergedMetrics(rs), usage |-> totalUsage(rs) ]

-----------------------------------------------------------------------------
(* reviewCode *)

\* The cumulative cost check of the chunk loop, after a chunk's review was
\* added: TRUE when the loop breaks.
CostCheckBreaks(limit, total) == limit # 0 /\ total > limit

\* The cost check at the entry of reviewCode: TRUE when the call throws.
EntryCheckThrows(limit, svcTotal) == limit # 0 /\ svcTotal >= limit

\* The review service before any call, with no prior spend: what the other
\* specifications hold it at.
ReviewIdle ==
    /\ costLimit = 0
    /\ enableEnhancedContext = TRUE
    /\ svcTotalCost = 0
    /\ pc = "idle"
    /\ mode = "none"
    /\ nChunks = 0
    /\ cur = 0
    /\ reviews = << >>
    /\ totalCost = 0
    /\ stoppedByCost = FALSE
    /\ result = NoReview
    /\ error = "none"
    /\ callLog = << >>

\* The planner with no call made.
PlanIdle ==
    /\ planChanges = << >>
    /\ planFindings = << >>
    /\ planForce = {}
    /\ planStrategy = "none"
    /\ planBudget = 0
    /\ planPc = "input"
    /\ planOut = [none |-> TRUE]

\* The job types of the model (of the six of enum JobType).
JobTypes == { "pr-analysis", "code-analysis" }

MaxJobs == 2        \* jobs added to the queues

JobIds == 1..MaxJobs

NoJob == [ status |-> "none" ]

\* The queue manager as constructed with an empty configuration.
QueueIdle ==
    /\ concurrency = [ t \in JobTypes |-> 0 ]
    /\ retryAttempts = [ t \in JobTypes |-> 0 ]
    /\ processors = {}
    /\ paused = {}
    /\ jobs = [ j \in JobIds |-> NoJob ]
    /\ retryCalls = 0

\* DEFAULT_CONFIG.retry, delays in milliseconds and the jitter factor in
\* percent.
DefaultMaxAttempts == 3
DefaultInitialDelay == 1000
DefaultMaxDelay == 10000
DefaultBackoffMultiplier == 2
DefaultJitterPercent == 10

DefaultRetryPolicy ==
    [ maxAttempts |-> DefaultMaxAttempts,
      initialDelay |-> DefaultInitialDelay,
      maxDelay |-> DefaultMaxDelay,
      backoffMultiplier |-> DefaultBackoffMultiplier,
      jitterPercent |-> DefaultJitterPercent ]

NoError == [ kind |-> "none" ]

\* The retry manager of a service with the default configuration, with no
\* call made.
RetryIdle ==
    /\ policy = DefaultRetryPolicy
    /\ retryPc = "idle"
    /\ attemptsMade = 0
    /\ invocations = 0
    /\ delays = << >>
    /\ lastError = NoError
    /\ terminalError = NoError

\* The webhook requests of the model.
Requests == { "r1", "r2" }

NoRequest == [ pc |-> "none" ]

\* The webhook service with validation on and no request received.
WebhookIdle ==
    /\ skipValidation = FALSE
    /\ hasQueueManager = TRUE
    /\ requests = [ r \in Requests |-> NoRequest ]
    /\ processedEvents = {}

NoCall == [ op |-> "none", error |-> "none" ]

\* The queue manager as constructed: a queue for every job type, not
\* shutting down, nothing emitted.
ManagerIdle ==
    /\ queues = JobTypes
    /\ isShuttingDown = FALSE
    /\ shutdownPc = "none"
    /\ emitted = [ j \in JobIds |-> << >> ]
    /\ lastCall = NoCall

\* The installations of the model.
Installations == { 101, 102 }

\* No token is cached for the installation.
NoToken == -1

NoAuthCall == [ op |-> "none" ]

\* GitHubAuth as constructed: no token cached, no call made.
AuthIdle ==
    /\ now = 0
    /\ installationTokens = [ i \in Installations |-> NoToken ]
    /\ lastAuthCall = NoAuthCall

NoOutcome == [ kind |-> "none" ]

\* No withRetry call is made on the client.
ClientIdle ==
    /\ maxRetries = 2
    /\ withRetryPc = "idle"
    /\ attempt = 0
    /\ operationCalls = 0
    /\ operationError = NoOutcome
    /\ withRetryOutcome = NoOutcome

\* No prioritizeChanges call is made.
ContextIdle ==
    /\ ctxChanges = << >>
    /\ ctxFindings = << >>
    /\ ctxAvailable = 0
    /\ ctxPc = "input"
    /\ ctxOut = [none |-> TRUE]

InitReview ==
    /\ PlanIdle
    /\ QueueIdle
    /\ RetryIdle
    /\ WebhookIdle
    /\ ManagerIdle
    /\ AuthIdle
    /\ ClientIdle
    /\ ContextIdle
    /\ costLimit \in 0..MaxLimit
    /\ enableEnhancedContext \in BOOLEAN
    /\ svcTotalCost \in 0..MaxPriorCost
    /\ pc = "idle"
    /\ mode = "none"
    /\ nChunks = 0
    /\ cur = 0
    /\ reviews = << >>
    /\ totalCost = 0
    /\ stoppedByCost = FALSE
    /\ result = NoReview
    /\ error = "none"
    /\ callLog = << >>

\* The end of reviewWithEnhancedContext: return this.mergeChunkReviews(...)
Merge(rs) ==
    IF Len(rs) = 0
    THEN /\ pc' = "failed"
         /\ error' = "No reviews to merge"
         /\ result' = NoReview
    ELSE /\ pc' = "done"
         /\ error' = error
         /\ result' = mergeChunkReviews(rs)

\* The loop goes on after iteration i: the next chunk is requested, or the
\* loop is over and the reviews are merged.
NextIteration(i, rs, log) ==
    IF i + 1 <= nChunks
    THEN /\ cur' = i + 1
         /\ callLog' = Append(log, << "dispatch", i + 1 >>)
         /\ pc' = "awaiting"
         /\ UNCHANGED << result, error >>
    ELSE /\ cur' = i
         /\ callLog' = log
         /\ Merge(rs)

\* A plausible slip: every chunk is requested at once (a Promise.all over
\* the chunks) instead of one request per loop iteration.
ReviewCodeAllAtOnce(n) ==
    /\ pc = "idle"
    /\ UNCHANGED << costLimit, enableEnhancedContext, svcTotalCost, reviews,
                    totalCost, stoppedByCost, result, error >>
    /\ nChunks' = n
    /\ mode' = "multi"
    /\ pc' = "awaiting"
    /\ cur' = 1
    /\ callLog' = [ k \in 1..(IF n = 0 THEN 1 ELSE n) |-> << "dispatch", k >> ]

\* reviewCode(request) up to its first await.  n is the number of chunks
\* analyzeAndChunk returns for the request.
ReviewCode(n) ==
    /\ pc = "idle"
    /\ UNCHANGED << costLimit, enableEnhancedContext, svcTotalCost, reviews,
                    totalCost, stoppedByCost >>
    /\ IF EntryCheckThrows(costLimit, svcTotalCost)
       THEN /\ pc' = "failed"
            /\ error' = "Cost limit exceeded"
            /\ UNCHANGED << mode, nChunks, cur, result, callLog >>
       ELSE IF ~enableEnhancedContext
       THEN /\ mode' = "standard"
            /\ pc' = "awaiting"
            /\ cur' = 1
            /\ callLog' = Append(callLog, << "dispatch", 1 >>)
            /\ UNCHANGED << nChunks, result, error >>
       ELSE /\ nChunks' = n
            /\ IF n = 1
               THEN /\ mode' = "single"
                    /\ pc' = "awaiting"
                    /\ cur' = 1
                    /\ callLog' = Append(callLog, << "dispatch", 1 >>)
                    /\ UNCHANGED << result, error >>
               ELSE /\ mode' = "multi"
                    /\ IF n >= 1
                       THEN /\ cur' = 1
                            /\ callLog' = Append(callLog, << "dispatch", 1 >>)
                            /\ pc' = "awaiting"
                            /\ UNCHANGED << result, error >>
                       ELSE /\ cur' = 0
                            /\ callLog' = callLog
                            /\ Merge(<< >>)

\* generateReviewWithRetry resolves with a Review of verdict v that cost c.
ChunkReturns(v, c) ==
    /\ pc = "awaiting"
    /\ svcTotalCost' = svcTotalCost + c
    /\ UNCHANGED << costLimit, enableEnhancedContext, mode, nChunks >>
    /\ LET review == ChunkReview(cur, v, c)
           log == Append(callLog, << "return", cur >>)
       IN IF mode # "multi"
          THEN /\ pc' = "done"
               /\ result' = review
               /\ callLog' = log
               /\ UNCHANGED << cur, reviews, totalCost, stoppedByCost, error >>
          ELSE /\ reviews' = Append(reviews, review)
               /\ totalCost' = totalCost + c
               /\ IF CostCheckBreaks(costLimit, totalCost + c)
                  THEN /\ stoppedByCost' = TRUE
                       /\ cur' = cur
                       /\ callLog' = log
                       /\ Merge(Append(reviews, review))
                  ELSE /\ stoppedByCost' = stoppedByCost
                       /\ NextIteration(cur, Append(reviews, review), log)

\* A plausible slip: the catch branch leaves the loop, and the run merges
\* what it has.
ChunkFailsEndsLoop ==
    /\ pc = "awaiting"
    /\ UNCHANGED << costLimit, enableEnhancedContext, svcTotalCost, mode,
                    nChunks, reviews, totalCost, stoppedByCost >>
    /\ LET log == Append(callLog, << "fail", cur >>)
       IN IF mode # "multi"
          THEN /\ pc' = "failed"
               /\ error' = "chunk request failed"
               /\ callLog' = log
               /\ UNCHANGED << cur, result >>
          ELSE /\ cur' = cur
               /\ callLog' = log
               /\ Merge(reviews)

\* generateReviewWithRetry rejects (the retries are exhausted).
ChunkFails ==
    /\ pc = "awaiting"
    /\ UNCHANGED << costLimit, enableEnhancedContext, svcTotalCost, mode,
                    nChunks, reviews, totalCost, stoppedByCost >>
    /\ LET log == Append(callLog, << "fail", cur >>)
       IN IF mode # "multi"
          THEN /\ pc' = "failed"
               /\ error' = "chunk request failed"
               /\ callLog' = log
               /\ UNCHANGED << cur, result >>
          ELSE NextIteration(cur, reviews, log)

NextReview ==
    \/ \E n \in 0..MaxChunks :
          ReviewCode(n) /\ UNCHANGED exceptReviewVars
    \/ \E v \in Verdicts, c \in 0..MaxCost :
          ChunkReturns(v, c) /\ UNCHANGED exceptReviewVars
    \/ ChunkFails /\ UNCHANGED exceptReviewVars

SpecReview == InitReview /\ [][NextReview]_vars

(***************************************************************************)
(* The run with the attempts of generateReviewWithRetry told apart.  The    *)
(* operation given to executeWithRetry awaits callOpenAI, then calls        *)
(* parseResponse, and only then computes the cost of the response and adds  *)
(* it to this.totalCost.  A response that parseResponse rejects has been    *)
(* answered and billed by the API; the operation throws before its cost is  *)
(* computed, and the retry manager calls the operation again or gives up    *)
(* (ChunkFails).                                                            *)
(***************************************************************************)

RejectedResponses == { j \in 1..Len(callLog) : callLog[j][1] = "rejected" }

\* callOpenAI resolved with a response that cost c, and parseResponse threw:
\* the request for the chunk is still pending in executeWithRetry.
ResponseRejected(c) ==
    /\ pc = "awaiting"
    /\ Cardinality(RejectedResponses) < MaxRejected
    /\ callLog' = Append(callLog, << "rejected", cur, c >>)
    /\ UNCHANGED << costLimit, enableEnhancedContext, svcTotalCost, pc, mode,
                    nChunks, cur, reviews, totalCost, stoppedByCost, result, error >>

NextDispatch ==
    \/ \E n \in 0..MaxChunks :
          ReviewCode(n) /\ UNCHANGED exceptReviewVars
    \/ \E v \in Verdicts, c \in 0..MaxCost :
          ChunkReturns(v, c) /\ UNCHANGED exceptReviewVars
    \/ \E c \in 0..MaxCost :
          ResponseRejected(c) /\ UNCHANGED exceptReviewVars
    \/ ChunkFails /\ UNCHANGED exceptReviewVars

SpecDispatch == InitReview /\ [][NextDispatch]_vars

\* mergeChunkReviews on its own: a list of chunk reviews with their metrics
\* and usage, and one call that merges them.
InitMerge ==
    /\ PlanIdle
    /\ QueueIdle
    /\ RetryIdle
    /\ WebhookIdle
    /\ ManagerIdle
    /\ AuthIdle
    /\ ClientIdle
    /\ ContextIdle
    /\ costLimit = 0
    /\ enableEnhancedContext = TRUE
    /\ svcTotalCost = 0
    /\ pc = "merge"
    /\ mode = "multi"
    /\ reviews \in ReviewsToMerge
    /\ nChunks = Len(reviews)
    /\ cur = Len(reviews)
    /\ totalCost = 0
    /\ stoppedByCost = FALSE
    /\ result = NoReview
    /\ error = "none"
    /\ callLog = << >>

MergeChunkReviews ==
    /\ pc = "merge"
    /\ IF reviews = << >>
       THEN /\ pc' = "failed"
            /\ error' = "No reviews to merge"
            /\ UNCHANGED result
       ELSE /\ pc' = "done"
            /\ result' = mergeMetricsAndUsage(reviews)
            /\ UNCHANGED error
    /\ UNCHANGED << costLimit, enableEnhancedContext, svcTotalCost, mode, nChunks,
                    cur, reviews, totalCost, stoppedByCost, callLog >>
    /\ UNCHANGED exceptReviewVars

NextMerge == MergeChunkReviews

SpecMerge == InitMerge /\ [][NextMerge]_vars

-----------------------------------------------------------------------------
(* Properties of the review run *)

Dispatches == { j \in 1..Len(callLog) : callLog[j][1] = "dispatch" }
Outcomes == { j \in 1..Len(callLog) : callLog[j][1] \in {"return", "fail"} }

\* JavaScript reads a field the object does not have as undefined (falsy).
Truncated(r) == IF "truncated" \in DOMAIN r THEN r.truncated ELSE FALSE

\* C1: in a multi-chunk run the ceiling is consulted before each dispatch:
\* a chunk request is only ever in flight when the run's cumulative cost,
\* as it stood at the dispatch, was below the configured ceiling (a
\* cumulative cost equal to the ceiling already blocks the dispatch).
C1_NoDispatchAtOrOverCeiling ==
    (mode = "multi" /\ pc = "awaiting" /\ costLimit # 0)
        => totalCost < costLimit

\* C2: when the ceiling stopped the loop with chunks left, the call does
\* not fail, the Review it returns is built from the chunks already
\* dispatched only, and that Review is marked truncated = true.
C2_CostStopReturnsTruncatedReview ==
    (stoppedByCost /\ cur < nChunks)
        => /\ pc = "done"
           /\ result # NoReview
           /\ \A k \in 1..Len(result.comments) : result.comments[k] <= cur
           /\ Truncated(result) = TRUE

\* C9: within one run the chunks are processed one after the other: at
\* most one chunk request is in flight, the first request is for chunk 1,
\* and the request for chunk i+1 is made only right after the request for
\* chunk i has returned or finally failed, in the planner's order.
C9_ChunksSequential ==
    /\ Cardinality(Dispatches) - Cardinality(Outcomes)
           = (IF pc = "awaiting" THEN 1 ELSE 0)
    /\ \A j \in Dispatches :
          IF j = 1
          THEN callLog[j][2] = 1
          ELSE /\ callLog[j - 1][1] \in {"return", "fail"}
               /\ callLog[j - 1][2] = callLog[j][2] - 1
    /\ \A j \in Outcomes :
          /\ j > 1
          /\ callLog[j - 1] = << "dispatch", callLog[j][2] >>

\* C9 witness: three chunks were requested in order, the second one failed.
C9_Witness ==
    /\ mode = "multi"
    /\ callLog = << << "dispatch", 1 >>, << "return", 1 >>,
                    << "dispatch", 2 >>, << "fail", 2 >>,
                    << "dispatch", 3 >> >>

Rank(v) ==
    CASE v = "approve" -> 1
      [] v = "comment" -> 2
      [] v = "request-changes" -> 3

Permuted(rs, p) == [ k \in 1..Len(rs) |-> rs[p[k]] ]

\* C10: for two or more chunk reviews the merged verdict is the greatest
\* chunk verdict under request-changes > comment > approve, and merging the
\* same reviews in any other order gives the same verdict.
C10_VerdictDominance ==
    (pc = "done" /\ mode = "multi" /\ Len(reviews) >= 2)
        => /\ result.verdict \in VerdictsOf(reviews)
           /\ \A k \in 1..Len(reviews) :
                 Rank(reviews[k].verdict) <= Rank(result.verdict)
           /\ \A p \in Permutations(1..Len(reviews)) :
                 mergeChunkReviews(Permuted(reviews, p)).verdict
                     = result.verdict

\* C10 witness: comment, approve and request-changes merged to
\* request-changes.
C10_Witness ==
    /\ pc = "done"
    /\ mode = "multi"
    /\ Len(reviews) = 3
    /\ reviews[1].verdict = "comment"
    /\ reviews[2].verdict = "approve"
    /\ reviews[3].verdict = "request-changes"
    /\ result.verdict = "request-changes"

\* The sum of a list of numbers, from its last element down.
RECURSIVE SumOf(_)
SumOf(values) ==
    IF values = << >> THEN 0
    ELSE values[Len(values)] + SumOf(SubSeq(values, 1, Len(values) - 1))

ImpactRank(impact) ==
    CASE impact = "low" -> 0
      [] impact = "medium" -> 1
      [] impact = "high" -> 2
      [] impact = "critical" -> 3

Merged == pc = "done" /\ Len(reviews) >= 2

MergedIndices == 1..Len(reviews)

\* C20: when two or more chunk reviews are merged, issuesFound,
\* criticalIssues, improvements and the usage fields promptTokens,
\* completionTokens, totalTokens and estimatedCost of the result are the sums
\* over the chunk reviews, and estimatedImpact is the worst value present
\* among them.
C20_MergedMetricsAreSumsAndWorstImpact ==
    Merged =>
        /\ result.metrics.issuesFound
              = SumOf([ k \in MergedIndices |-> reviews[k].metrics.issuesFound ])
        /\ result.metrics.criticalIssues
              = SumOf([ k \in MergedIndices |-> reviews[k].metrics.criticalIssues ])
        /\ result.metrics.improvements
              = SumOf([ k \in MergedIndices |-> reviews[k].metrics.improvements ])
        /\ result.usage.promptTokens
              = SumOf([ k \in MergedIndices |-> reviews[k].usage.promptTokens ])
        /\ result.usage.completionTokens
              = SumOf([ k \in MergedIndices |-> reviews[k].usage.completionTokens ])
        /\ result.usage.totalTokens
              = SumOf([ k \in MergedIndices |-> reviews[k].usage.totalTokens ])
        /\ result.usage.estimatedCost
              = SumOf([ k \in MergedIndices |-> reviews[k].usage.estimatedCost ])
        /\ \E k \in MergedIndices :
              result.metrics.estimatedImpact = reviews[k].metrics.estimatedImpact
        /\ \A k \in MergedIndices :
              ImpactRank(reviews[k].metrics.estimatedImpact)
                  <= ImpactRank(result.metrics.estimatedImpact)

\* C20 witness: three reviews with impacts high, critical and medium, of
\* different metrics and usage, merged to critical.
C20_Witness ==
    /\ Merged
    /\ Len(reviews) = 3
    /\ reviews[1].metrics.estimatedImpact = "high"
    /\ reviews[2].metrics.estimatedImpact = "critical"
    /\ reviews[3].metrics.estimatedImpact = "medium"
    /\ reviews[1].usage # reviews[2].usage
    /\ result.metrics.estimatedImpact = "critical"
    /\ result.metrics.issuesFound = 8

\* What the API billed for the responses to the requests of the chunks
\* before chunk k: the accepted ones, whose Review carries the cost, and the
\* rejected ones.
RECURSIVE RejectedCostBefore(_, _)
RejectedCostBefore(log, k) ==
    IF log = << >> THEN 0
    ELSE (IF Head(log)[1] = "rejected" /\ Head(log)[2] < k THEN Head(log)[3] ELSE 0)
         + RejectedCostBefore(Tail(log), k)

BilledBefore(k) == SumCost(reviews) + RejectedCostBefore(callLog, k)

\* C25: when the request of a chunk is dispatched, the run's cumulative
\* spend holds the cost of every response received for the chunks before
\* it, the responses rejected as malformed and those of chunks that failed
\* in the end included.
C25_CompletedDispatchCostsRecorded ==
    (mode = "multi" /\ pc = "awaiting") => totalCost = BilledBefore(cur)

\* The part of C25 that holds: the cost of every accepted response is in
\* the cumulative spend when the next request is dispatched.
AcceptedCostsRecorded ==
    (mode = "multi" /\ pc = "awaiting") => totalCost = SumCost(reviews)

FailedChunks == { callLog[j][2] : j \in { k \in Outcomes : callLog[k][1] = "fail" } }
ReturnedChunks == { callLog[j][2] : j \in { k \in Outcomes : callLog[k][1] = "return" } }

DispatchedChunks == { callLog[j][2] : j \in Dispatches }

\* The chunk indices of a list of reviews, in its order.
ChunksOf(rs) == [ k \in 1..Len(rs) |-> rs[k].comments[1] ]

RunOver == pc \in { "done", "failed" }

\* C26: when a chunk of a multi-chunk run fails for good, the request of the
\* next chunk is dispatched right away, every later chunk is dispatched
\* unless the cost ceiling stopped the loop, and a run in which a chunk
\* succeeded ends with a Review made of the results of all the chunks that
\* succeeded, in their order.
C26_FailedChunkDropsOnlyItsResults ==
    (mode = "multi" /\ FailedChunks # {})
        => /\ \A j \in Outcomes :
                 (callLog[j][1] = "fail" /\ callLog[j][2] < nChunks)
                     => /\ j < Len(callLog)
                        /\ callLog[j + 1] = << "dispatch", callLog[j][2] + 1 >>
           /\ (RunOver /\ ~stoppedByCost) => DispatchedChunks = 1..nChunks
           /\ (RunOver /\ ReturnedChunks # {})
                 => /\ pc = "done"
                    /\ { reviews[k].comments[1] : k \in 1..Len(reviews) } = ReturnedChunks
                    /\ result.comments = ChunksOf(reviews)
                    /\ result.verdict = OverallVerdict(reviews)
                    /\ result.estimatedCost = SumCost(reviews)

\* C26 witness: chunk 1 of three failed, chunks 2 and 3 were dispatched and
\* returned, and the Review holds the results of both.
C26_Witness ==
    /\ mode = "multi"
    /\ pc = "done"
    /\ nChunks = 3
    /\ FailedChunks = { 1 }
    /\ ReturnedChunks = { 2, 3 }
    /\ result.comments = << 2, 3 >>


\* The chunk failures the error thrown by reviewCode carries: the rejection
\* of the only request is that request's failure; new Error('No reviews to
\* merge') and the cost limit error carry none.
FailuresListedIn(e) ==
    IF e = "chunk request failed" THEN FailedChunks ELSE {}

\* C12: a run in which at least one chunk request succeeded does not fail,
\* whatever other chunk requests failed; a run in which chunk requests
\* failed and none succeeded fails with an error that lists the failure of
\* every chunk.
C12_ChunkFailuresAggregate ==
    /\ (pc \in { "done", "failed" } /\ ReturnedChunks # {}) => pc = "done"
    /\ (pc \in { "done", "failed" } /\ FailedChunks # {} /\ ReturnedChunks = {})
          => /\ pc = "failed"
             /\ FailuresListedIn(error) = FailedChunks

\* C14: the cost record is the run's own: a run is refused for the cost
\* limit, or stops dispatching its chunks, only when the cost of its own
\* chunk reviews has reached the limit, never for what other runs on the
\* same service instance have spent.
C14_CostRecordPerRun ==
    /\ (pc = "failed" /\ error = "Cost limit exceeded")
          => (costLimit # 0 /\ SumCost(reviews) >= costLimit)
    /\ stoppedByCost
          => (costLimit # 0 /\ SumCost(reviews) >= costLimit)

\* The part of C14 that holds: the loop stops for the cost of the run's own
\* chunk reviews only.
LoopStopsForOwnCostOnly ==
    /\ totalCost = SumCost(reviews)
    /\ stoppedByCost => (costLimit # 0 /\ SumCost(reviews) > costLimit)

\* The part of C12 that holds: with one chunk request that succeeded the
\* run returns a review, and with none it fails.
RunFailsOnlyWithoutASuccessfulChunk ==
    /\ (pc \in { "done", "failed" } /\ ReturnedChunks # {}) => pc = "done"
    /\ (pc \in { "done", "failed" } /\ ReturnedChunks = {}) => pc = "failed"

-----------------------------------------------------------------------------
(* EnhancedContextManager: inputs of the planner model *)

\* The files of the model, with what the string operations of the code give
\* for each path.
Files == { "src/auth.ts", "src/utils.ts", "api/routes.js" }

\* The paths of the model of large change sets: file k of top-level
\* directory m, a TypeScript file that matches none of the patterns.
ModuleNumbers == 1..6
ChangeNumbers == 1..21
ModuleName(m) == "mod" \o ToString(m)
LargeSetFile(m, k) == ModuleName(m) \o "/file" \o ToString(k) \o ".ts"

\* change.file.split('/')[0]
ModuleOf(file) ==
    CASE file = "src/auth.ts" -> "src"
      [] file = "src/utils.ts" -> "src"
      [] file = "api/routes.js" -> "api"
      [] file \in { "src/parser.ts", "src/render.ts" } -> "src"
      [] OTHER -> ModuleName(CHOOSE m \in ModuleNumbers :
                                \E k \in ChangeNumbers : file = LargeSetFile(m, k))

\* change.file.split('.').pop()
ExtOf(file) ==
    CASE file = "src/auth.ts" -> "ts"
      [] file = "src/utils.ts" -> "ts"
      [] file = "api/routes.js" -> "js"
      [] file \in { "src/parser.ts", "src/render.ts" } -> "ts"
      [] OTHER -> "ts"

\* sensitivePatterns.some(pattern => pattern.test(file)): /auth/i matches
\* src/auth.ts; no pattern matches the other two paths.
isSecuritySensitiveFile(file) == file = "src/auth.ts"

\* criticalPatterns.some(pattern => pattern.test(file)): /api/i and /route/i
\* match api/routes.js; no pattern matches the other two paths.
isCriticalFile(file) == file = "api/routes.js"

\* The token estimate of a change's hunks (the sum of estimateTokens over the
\* hunk texts) is an input of the model.
HunkSizes == { 0, 100 }

\* The budgets of the model: contextWindowSize - reservedTokens -
\* systemPromptTokens.
Budgets == { 100, 200 }

ChangeTypesOf(file) ==
    IF isSecuritySensitiveFile(file) THEN { "added", "modified" }
    ELSE { "modified" }

ChangeRecords ==
    { [ file |-> f, changeType |-> t, hunkTokens |-> h ] :
        f \in Files, t \in { "added", "modified" }, h \in HunkSizes }

\* Lists of changes to distinct files: every list over the files of the
\* model, the empty one included.
ChangeLists ==
    UNION { { cs \in [ 1..n -> ChangeRecords ] :
                /\ \A j \in 1..n : cs[j].changeType \in ChangeTypesOf(cs[j].file)
                /\ \A j, k \in 1..n : j # k => cs[j].file # cs[k].file }
            : n \in 0..Cardinality(Files) }

\* The finding the analysers report on a file of the model, when they
\* report one.
FindingOn(file) ==
    CASE file = "src/auth.ts" ->
            [ file |-> file, severity |-> "critical", type |-> "security" ]
      [] file = "src/utils.ts" ->
            [ file |-> file, severity |-> "low", type |-> "style" ]
      [] file = "api/routes.js" ->
            [ file |-> file, severity |-> "critical", type |-> "bug" ]

RECURSIVE FindingsFor(_, _)
FindingsFor(cs, withFinding) ==
    IF cs = << >> THEN << >>
    ELSE (IF Head(cs).file \in withFinding
          THEN << FindingOn(Head(cs).file) >> ELSE << >>)
         \o FindingsFor(Tail(cs), withFinding)

Strategies == { "by-module", "by-severity", "by-file-type", "by-size", "smart" }

-----------------------------------------------------------------------------
(* EnhancedContextManager: the planner *)

\* enum ContentPriority
CRITICAL_SECURITY == 100
HIGH_SECURITY == 90
CRITICAL_BUG == 80
HIGH_BUG == 70
MEDIUM_ISSUE == 50
LOW_ISSUE == 40
CONTEXT == 20

ChangeBaseTokens == 50      \* estimateChangeTokens: base overhead
TokensPerFinding == 60      \* estimateFindingTokens

Max(a, b) == IF a >= b THEN a ELSE b

estimateChangeTokens(change) == ChangeBaseTokens + change.hunkTokens

estimateFindingTokens(fs) == Len(fs) * TokensPerFinding

ItemTokens(item) ==
    estimateChangeTokens(item.change) + estimateFindingTokens(item.relatedFindings)

getFindingPriority(finding) ==
    CASE finding.severity = "critical" ->
            (IF finding.type = "security" THEN CRITICAL_SECURITY ELSE CRITICAL_BUG)
      [] finding.severity = "high" ->
            (IF finding.type = "security" THEN HIGH_SECURITY ELSE HIGH_BUG)
      [] finding.severity = "medium" -> MEDIUM_ISSUE
      [] OTHER -> LOW_ISSUE

RECURSIVE MaxFindingPriority(_, _)
MaxFindingPriority(fs, acc) ==
    IF fs = << >> THEN acc
    ELSE MaxFindingPriority(Tail(fs), Max(acc, getFindingPriority(Head(fs))))

calculateChangePriority(change, fs) ==
    LET p1 == MaxFindingPriority(fs, CONTEXT)
        p2 == IF change.changeType = "added" /\ isSecuritySensitiveFile(change.file)
              THEN Max(p1, HIGH_SECURITY) ELSE p1
    IN IF isCriticalFile(change.file) THEN Max(p2, HIGH_BUG) ELSE p2

\* findingsByFile.get(change.file) || []
RelatedFindings(file, fs) == SelectSeq(fs, LAMBDA f : f.file = file)

\* Array.prototype.sort is stable: an item goes behind the items of equal
\* or higher priority that precede it.
RECURSIVE InsertByPriority(_, _)
InsertByPriority(sorted, item) ==
    IF sorted = << >> THEN << item >>
    ELSE IF Head(sorted).priority >= item.priority
         THEN << Head(sorted) >> \o InsertByPriority(Tail(sorted), item)
         ELSE << item >> \o sorted

RECURSIVE SortByPriority(_, _)
SortByPriority(items, sorted) ==
    IF items = << >> THEN sorted
    ELSE SortByPriority(Tail(items), InsertByPriority(sorted, Head(items)))

PrioritizedItem(change, fs, force) ==
    LET related == RelatedFindings(change.file, fs)
        must == change.file \in force
        p == calculateChangePriority(change, related)
    IN [ change |-> change,
         priority |-> IF must THEN Max(p, CRITICAL_SECURITY) ELSE p,
         relatedFindings |-> related,
         mustInclude |-> must ]

prioritizeContent(changes, fs, force) ==
    SortByPriority([ j \in 1..Len(changes) |-> PrioritizedItem(changes[j], fs, force) ],
                   << >>)

EmptyChunk(id) ==
    [ id |-> id, priority |-> 0, changes |-> << >>, findings |-> << >>,
      tokenEstimate |-> 0 ]

\* The four assignments that put an item into a chunk.
AddToChunk(chunk, item) ==
    [ chunk EXCEPT !.changes = Append(@, item.change),
                   !.findings = @ \o item.relatedFindings,
                   !.tokenEstimate = @ + ItemTokens(item),
                   !.priority = Max(@, item.priority) ]

\* createSingleChunk: whether the loop adds the item to the chunk
Admits(chunk, item, availableTokens) ==
    chunk.tokenEstimate + ItemTokens(item) <= availableTokens \/ item.mustInclude

RECURSIVE FillChunk(_, _, _)
FillChunk(items, availableTokens, chunk) ==
    IF items = << >> THEN chunk
    ELSE FillChunk(Tail(items), availableTokens,
                   IF Admits(chunk, Head(items), availableTokens)
                   THEN AddToChunk(chunk, Head(items)) ELSE chunk)

createSingleChunk(content, availableTokens, id) ==
    FillChunk(SelectSeq(content, LAMBDA c : c.mustInclude)
                  \o SelectSeq(content, LAMBDA c : ~c.mustInclude),
              availableTokens, EmptyChunk(id))

\* if (chunk.changes.length > 0) chunks.push(chunk)
PushIfNotEmpty(chunks, chunk) ==
    IF Len(chunk.changes) > 0 THEN Append(chunks, chunk) ELSE chunks

\* chunkBySeverity: priorityGroups
PriorityGroups ==
    << [ min |-> CRITICAL_SECURITY - 10, max |-> CRITICAL_SECURITY + 10,
         name |-> "critical-security" ],
       [ min |-> HIGH_SECURITY - 10, max |-> HIGH_SECURITY + 10,
         name |-> "high-security" ],
       [ min |-> CRITICAL_BUG - 10, max |-> CRITICAL_BUG + 10,
         name |-> "critical-bugs" ],
       [ min |-> HIGH_BUG - 10, max |-> HIGH_BUG + 10,
         name |-> "high-priority" ],
       [ min |-> 0, max |-> MEDIUM_ISSUE + 10, name |-> "other-issues" ] >>

RECURSIVE SeverityChunks(_, _, _, _)
SeverityChunks(groups, content, availableTokens, chunks) ==
    IF groups = << >> THEN chunks
    ELSE LET group == Head(groups)
             groupContent ==
                 SelectSeq(content, LAMBDA c :
                     c.priority >= group.min /\ c.priority <= group.max)
         IN SeverityChunks(Tail(groups), content, availableTokens,
                IF groupContent = << >> THEN chunks
                ELSE PushIfNotEmpty(chunks,
                         createSingleChunk(groupContent, availableTokens,
                                           << "severity", group.name >>)))

chunkBySeverity(content, availableTokens) ==
    SeverityChunks(PriorityGroups, content, availableTokens, << >>)

\* The keys of a Map filled in the order of the items: the first
\* occurrences in the list of the items' keys.
RECURSIVE KeysInOrder(_, _)
KeysInOrder(itemKeys, keys) ==
    IF itemKeys = << >> THEN keys
    ELSE KeysInOrder(Tail(itemKeys),
             IF \E k \in 1..Len(keys) : keys[k] = Head(itemKeys)
             THEN keys ELSE Append(keys, Head(itemKeys)))

ItemModule(item) == ModuleOf(item.change.file)
ItemExt(item) == ExtOf(item.change.file)

RECURSIVE MaxPriority(_)
MaxPriority(content) ==
    IF Len(content) = 1 THEN content[1].priority
    ELSE Max(content[1].priority, MaxPriority(Tail(content)))

\* chunkByModule: moduleGroups as entries, in insertion order
ModuleGroups(content) ==
    LET keys == KeysInOrder([ j \in 1..Len(content) |-> ItemModule(content[j]) ],
                               << >>)
    IN [ k \in 1..Len(keys) |->
           LET items == SelectSeq(content, LAMBDA c : ItemModule(c) = keys[k])
           IN [ key |-> keys[k], items |-> items, priority |-> MaxPriority(items) ] ]

RECURSIVE GroupChunks(_, _, _, _)
GroupChunks(groups, kind, availableTokens, chunks) ==
    IF groups = << >> THEN chunks
    ELSE GroupChunks(Tail(groups), kind, availableTokens,
             PushIfNotEmpty(chunks,
                 createSingleChunk(Head(groups).items, availableTokens,
                                   << kind, Head(groups).key >>)))

chunkByModule(content, availableTokens) ==
    GroupChunks(SortByPriority(ModuleGroups(content), << >>),
                "module", availableTokens, << >>)

\* chunkByFileType: typeGroups, iterated in insertion order
TypeGroups(content) ==
    LET keys == KeysInOrder([ j \in 1..Len(content) |-> ItemExt(content[j]) ],
                               << >>)
    IN [ k \in 1..Len(keys) |->
           [ key |-> keys[k],
             items |-> SelectSeq(content, LAMBDA c : ItemExt(c) = keys[k]) ] ]

chunkByFileType(content, availableTokens) ==
    GroupChunks(TypeGroups(content), "type", availableTokens, << >>)

smartChunk(content, availableTokens) ==
    LET criticalContent ==
            SelectSeq(content, LAMBDA c : c.mustInclude \/ c.priority >= CRITICAL_BUG)
        remainingContent ==
            SelectSeq(content, LAMBDA c : ~c.mustInclude /\ c.priority < CRITICAL_BUG)
        chunks ==
            IF Len(criticalContent) > 0
            THEN PushIfNotEmpty(<< >>,
                     createSingleChunk(criticalContent, availableTokens,
                                       << "critical", "critical" >>))
            ELSE << >>
    IN chunks \o chunkByModule(remainingContent, availableTokens)

\* A plausible slip: the test forgets the tokens of the item to be added.
StartsNewChunkIgnoringItem(chunk, item, availableTokens) ==
    /\ chunk.tokenEstimate > availableTokens
    /\ Len(chunk.changes) > 0

\* chunkBySize: whether the loop closes the current chunk before the item
StartsNewChunk(chunk, item, availableTokens) ==
    /\ chunk.tokenEstimate + ItemTokens(item) > availableTokens
    /\ Len(chunk.changes) > 0

\* chunkBySize: the for loop; st is [chunks, currentChunk, chunkCount]
RECURSIVE SizeLoop(_, _, _)
SizeLoop(content, availableTokens, st) ==
    IF content = << >> THEN st
    ELSE LET item == Head(content)
             st1 == IF StartsNewChunk(st.currentChunk, item, availableTokens)
                    THEN [ chunks |-> Append(st.chunks, st.currentChunk),
                           chunkCount |-> st.chunkCount + 1,
                           currentChunk |->
                               EmptyChunk(<< "chunk", st.chunkCount + 1 >>) ]
                    ELSE st
         IN SizeLoop(Tail(content), availableTokens,
                     [ st1 EXCEPT !.currentChunk = AddToChunk(@, item) ])

chunkBySize(content, availableTokens) ==
    LET st == SizeLoop(content, availableTokens,
                       [ chunks |-> << >>, chunkCount |-> 1,
                         currentChunk |-> EmptyChunk(<< "chunk", 1 >>) ])
    IN PushIfNotEmpty(st.chunks, st.currentChunk)

createChunks(content, strategy, availableTokens) ==
    CASE strategy = "by-severity" -> chunkBySeverity(content, availableTokens)
      [] strategy = "by-module" -> chunkByModule(content, availableTokens)
      [] strategy = "by-file-type" -> chunkByFileType(content, availableTokens)
      [] strategy = "smart" -> smartChunk(content, availableTokens)
      [] OTHER -> chunkBySize(content, availableTokens)

CountFindings(fs, severity) ==
    Cardinality({ k \in 1..Len(fs) : fs[k].severity = severity })

\* recommendChunkStrategy thresholds
ManyCritical == 5
ManyCriticalOrHigh == 10
ManyModules == 5
ManyChanges == 20

\* A plausible slip: the module test before the severity test.
recommendChunkStrategyModulesFirst(changes, fs) ==
    LET criticalFindings == CountFindings(fs, "critical")
        highFindings == CountFindings(fs, "high")
        modules == { ModuleOf(changes[k].file) : k \in 1..Len(changes) }
    IN IF Cardinality(modules) > ManyModules THEN "by-module"
       ELSE IF criticalFindings > ManyCritical
               \/ criticalFindings + highFindings > ManyCriticalOrHigh
       THEN "by-severity"
       ELSE IF Len(changes) > ManyChanges THEN "smart"
       ELSE "by-size"

recommendChunkStrategy(changes, fs) ==
    LET criticalFindings == CountFindings(fs, "critical")
        highFindings == CountFindings(fs, "high")
        modules == { ModuleOf(changes[k].file) : k \in 1..Len(changes) }
    IN IF criticalFindings > ManyCritical
          \/ criticalFindings + highFindings > ManyCriticalOrHigh
       THEN "by-severity"
       ELSE IF Cardinality(modules) > ManyModules THEN "by-module"
       ELSE IF Len(changes) > ManyChanges THEN "smart"
       ELSE "by-size"

RECURSIVE SumChangeTokens(_)
SumChangeTokens(changes) ==
    IF changes = << >> THEN 0
    ELSE estimateChangeTokens(Head(changes)) + SumChangeTokens(Tail(changes))

calculateTotalTokens(changes, fs) ==
    SumChangeTokens(changes) + estimateFindingTokens(fs)

\* analyzeAndChunk, with availableTokens standing for the three numbers
\* createChunks subtracts
analyzeAndChunk(changes, fs, strategyOption, force, availableTokens) ==
    LET strategy == IF strategyOption = "none"
                    THEN recommendChunkStrategy(changes, fs) ELSE strategyOption
    IN [ chunks |-> createChunks(prioritizeContent(changes, fs, force),
                                 strategy, availableTokens),
         summary |-> [ totalChanges |-> Len(changes),
                       totalFindings |-> Len(fs),
                       criticalFindings |-> CountFindings(fs, "critical"),
                       estimatedTotalTokens |-> calculateTotalTokens(changes, fs),
                       recommendedStrategy |-> strategy ] ]

InitPlan ==
    /\ ReviewIdle
    /\ QueueIdle
    /\ RetryIdle
    /\ WebhookIdle
    /\ ManagerIdle
    /\ AuthIdle
    /\ ClientIdle
    /\ ContextIdle
    /\ planChanges \in ChangeLists
    /\ \E withFinding \in SUBSET { planChanges[k].file : k \in 1..Len(planChanges) } :
          planFindings = FindingsFor(planChanges, withFinding)
    /\ planForce \in { {} } \cup { { f } : f \in Files }
    /\ planStrategy \in Strategies \cup { "none" }
    /\ planBudget \in Budgets
    /\ planPc = "input"
    /\ planOut = [none |-> TRUE]

\* One call of analyzeAndChunk on the inputs.
AnalyzeAndChunk ==
    /\ planPc = "input"
    /\ planPc' = "planned"
    /\ planOut' = analyzeAndChunk(planChanges, planFindings, planStrategy,
                                  planForce, planBudget)
    /\ UNCHANGED << planChanges, planFindings, planForce, planStrategy, planBudget >>
    /\ UNCHANGED exceptPlanVars

NextPlan == AnalyzeAndChunk

SpecPlan == InitPlan /\ [][NextPlan]_vars

\* Calls of analyzeAndChunk that take the size-based path, on changes to
\* files that match no pattern, with hunks of thousands of tokens.
SizeFiles == { "src/utils.ts", "src/parser.ts", "src/render.ts" }
SizeHunkTokens == { 4890, 4950 }
SizeBudgets == { 9000, 12000 }

SizeChangeLists ==
    UNION { { cs \in [ 1..n -> [ file : SizeFiles, changeType : { "modified" },
                                 hunkTokens : SizeHunkTokens ] ] :
                \A j, k \in 1..n : j # k => cs[j].file # cs[k].file }
            : n \in 0..Cardinality(SizeFiles) }

SizeFindingOn(file) == [ file |-> file, severity |-> "medium", type |-> "style" ]

RECURSIVE SizeFindingsFor(_, _)
SizeFindingsFor(cs, withFinding) ==
    IF cs = << >> THEN << >>
    ELSE (IF Head(cs).file \in withFinding
          THEN << SizeFindingOn(Head(cs).file) >> ELSE << >>)
         \o SizeFindingsFor(Tail(cs), withFinding)

InitSizes ==
    /\ ReviewIdle
    /\ QueueIdle
    /\ RetryIdle
    /\ WebhookIdle
    /\ ManagerIdle
    /\ AuthIdle
    /\ ClientIdle
    /\ ContextIdle
    /\ planChanges \in SizeChangeLists
    /\ \E withFinding \in SUBSET { planChanges[k].file : k \in 1..Len(planChanges) } :
          planFindings = SizeFindingsFor(planChanges, withFinding)
    /\ planForce = {}
    /\ planStrategy \in { "by-size", "none" }
    /\ planBudget \in SizeBudgets
    /\ planPc = "input"
    /\ planOut = [none |-> TRUE]

SpecSizes == InitSizes /\ [][NextPlan]_vars

\* Calls of analyzeAndChunk with no strategy option on change sets around
\* the thresholds of recommendChunkStrategy: the numbers of critical and of
\* high findings, of top-level directories and of changes.
CriticalCounts == { 0, 5, 6 }
HighCounts == { 0, 4, 5, 6 }
ModuleCounts == { 1, 5, 6 }
ChangeCounts == { 6, 20, 21 }

\* nChanges changes spread over nModules top-level directories.
LargeChangeSet(nChanges, nModules) ==
    [ k \in 1..nChanges |->
        [ file |-> LargeSetFile(((k - 1) % nModules) + 1, k),
          changeType |-> "modified", hunkTokens |-> 0 ] ]

\* nCritical critical and nHigh high findings, on the first files in turn.
LargeFindingSet(nCritical, nHigh, changes) ==
    [ k \in 1..(nCritical + nHigh) |->
        [ file |-> changes[((k - 1) % Len(changes)) + 1].file,
          severity |-> IF k <= nCritical THEN "critical" ELSE "high",
          type |-> "bug" ] ]

InitStrategy ==
    /\ ReviewIdle
    /\ QueueIdle
    /\ RetryIdle
    /\ WebhookIdle
    /\ ManagerIdle
    /\ AuthIdle
    /\ ClientIdle
    /\ ContextIdle
    /\ \E nChanges \in ChangeCounts, nModules \in ModuleCounts,
          nCritical \in CriticalCounts, nHigh \in HighCounts :
          /\ planChanges = LargeChangeSet(nChanges, nModules)
          /\ planFindings = LargeFindingSet(nCritical, nHigh, planChanges)
    /\ planForce = {}
    /\ planStrategy = "none"
    /\ planBudget \in { 60, 200, 12000 }
    /\ planPc = "input"
    /\ planOut = [none |-> TRUE]

SpecStrategy == InitStrategy /\ [][NextPlan]_vars

-----------------------------------------------------------------------------
(* Properties of the planner *)

Planned == planPc = "planned"

ChangedFiles == { planChanges[k].file : k \in 1..Len(planChanges) }

\* The strategy the call used.
UsedStrategy == planOut.summary.recommendedStrategy

\* The chunks (by index) that hold the change to a file.
ChunksHolding(file) ==
    { k \in 1..Len(planOut.chunks) :
        \E j \in 1..Len(planOut.chunks[k].changes) :
            planOut.chunks[k].changes[j].file = file }

\* How often the change to a file occurs in the chunks, over all chunks.
Occurrences(file) ==
    Cardinality({ << k, j >> \in (1..Len(planOut.chunks)) \X (1..Cardinality(Files)) :
                    /\ j <= Len(planOut.chunks[k].changes)
                    /\ planOut.chunks[k].changes[j].file = file })

\* C3 as stated: with no force-included change, every chunk is within the
\* budget, under every strategy.
C3_EveryChunkWithinBudget ==
    (Planned /\ planForce \cap ChangedFiles = {})
        => \A k \in 1..Len(planOut.chunks) :
              planOut.chunks[k].tokenEstimate <= planBudget

\* C3 amended: with no force-included change, every chunk is within the
\* budget, except that size-based chunking puts a change whose own estimate
\* (with its findings) exceeds the budget into a chunk of its own.
C3_WithinBudgetOrSingleOversized ==
    (Planned /\ planForce \cap ChangedFiles = {})
        => \A k \in 1..Len(planOut.chunks) :
              \/ planOut.chunks[k].tokenEstimate <= planBudget
              \/ /\ UsedStrategy = "by-size"
                 /\ Len(planOut.chunks[k].changes) = 1
                 /\ estimateChangeTokens(planOut.chunks[k].changes[1])
                      + estimateFindingTokens(planOut.chunks[k].findings)
                          > planBudget

\* C3 witness: size-based chunking of unforced changes gave a chunk of two
\* changes that fills the budget exactly and a chunk of one oversized change.
C3_Witness ==
    /\ Planned
    /\ planForce \cap ChangedFiles = {}
    /\ UsedStrategy = "by-size"
    /\ \E k \in 1..Len(planOut.chunks) :
          /\ Len(planOut.chunks[k].changes) = 2
          /\ planOut.chunks[k].tokenEstimate = planBudget
    /\ \E k \in 1..Len(planOut.chunks) :
          /\ Len(planOut.chunks[k].changes) = 1
          /\ planOut.chunks[k].tokenEstimate > planBudget

\* C4: the change to a force-included file is in exactly one chunk of the
\* output, under every strategy and whatever its size.
C4_ForcedChangeInExactlyOneChunk ==
    Planned
        => \A f \in planForce \cap ChangedFiles :
              /\ Cardinality(ChunksHolding(f)) = 1
              /\ Occurrences(f) = 1

\* The prioritized content of the call: what prioritizeContent hands to
\* createChunks.
PlanContent == prioritizeContent(planChanges, planFindings, planForce)

OnlyLowFindings(item) ==
    /\ item.relatedFindings # << >>
    /\ \A k \in 1..Len(item.relatedFindings) : item.relatedFindings[k].severity = "low"

\* A change with no findings to a security-sensitive file, and a change of
\* the same size with only low-severity findings that is not force-included.
OverridePair(a, b) ==
    /\ a.relatedFindings = << >>
    /\ isSecuritySensitiveFile(a.change.file)
    /\ OnlyLowFindings(b)
    /\ ~b.mustInclude
    /\ estimateChangeTokens(a.change) = estimateChangeTokens(b.change)

\* C17: a change with no findings whose file name matches a
\* security-sensitive pattern comes before an equally sized change that has
\* only low-severity findings, whatever its changeType.
C17_SecuritySensitiveChangeAhead ==
    Planned =>
        \A i, j \in 1..Len(PlanContent) :
            OverridePair(PlanContent[i], PlanContent[j]) => i < j

\* The part of C17 that holds: the change comes first when its changeType
\* is 'added'.
AddedSecuritySensitiveChangeAhead ==
    Planned =>
        \A i, j \in 1..Len(PlanContent) :
            ( /\ OverridePair(PlanContent[i], PlanContent[j])
              /\ PlanContent[i].change.changeType = "added" ) => i < j

\* The call has one change, and that change with its findings is estimated
\* above the budget.
SingleOversizedChange ==
    /\ Len(planChanges) = 1
    /\ Len(PlanContent) = 1
    /\ ItemTokens(PlanContent[1]) > planBudget

\* The output is one chunk over the budget that holds the one change only.
OneOverBudgetChunkOfTheChange ==
    /\ Len(planOut.chunks) = 1
    /\ planOut.chunks[1].changes = planChanges
    /\ planOut.chunks[1].tokenEstimate > planBudget

\* C18: a single change estimated above the budget, with no other items,
\* gives exactly one chunk, over the budget, that contains that change only,
\* under every strategy.
C18_SingleOversizedChangeGetsOneChunk ==
    (Planned /\ SingleOversizedChange) => OneOverBudgetChunkOfTheChange

\* The part of C18 that holds: size-based chunking.
SingleOversizedChangeBySize ==
    (Planned /\ SingleOversizedChange /\ UsedStrategy = "by-size")
        => OneOverBudgetChunkOfTheChange

\* Under the other strategies a single oversized change that is not
\* force-included is in no chunk: the output has no chunk at all.
SingleOversizedChangeDroppedOtherwise ==
    ( /\ Planned
      /\ SingleOversizedChange
      /\ UsedStrategy # "by-size"
      /\ ~PlanContent[1].mustInclude )
        => planOut.chunks = << >>

RECURSIVE ChangesInChunkOrder(_)
ChangesInChunkOrder(chunks) ==
    IF chunks = << >> THEN << >>
    ELSE Head(chunks).changes \o ChangesInChunkOrder(Tail(chunks))

\* The chunks hold the changes of the prioritized content, each once, in
\* its order.
OrderPreserved ==
    ChangesInChunkOrder(planOut.chunks)
        = [ k \in 1..Len(PlanContent) |-> PlanContent[k].change ]

\* A chunk is closed only because the next item did not fit into it.
ClosedWhenNextDoesNotFit ==
    \A k \in 1..(Len(planOut.chunks) - 1) :
        LET first == Len(ChangesInChunkOrder(SubSeq(planOut.chunks, 1, k))) + 1
        IN planOut.chunks[k].tokenEstimate + ItemTokens(PlanContent[first]) > planBudget

\* Three changes of equal priority, each estimated at 5,000 tokens, and a
\* budget of 12,000.
ThreeOfFiveThousand ==
    /\ Len(PlanContent) = 3
    /\ \A k \in 1..3 : ItemTokens(PlanContent[k]) = 5000
    /\ \A k \in 1..3 : PlanContent[k].priority = PlanContent[1].priority
    /\ planBudget = 12000

TwoThenOne ==
    /\ Len(planOut.chunks) = 2
    /\ planOut.chunks[1].changes = SubSeq(planChanges, 1, 2)
    /\ planOut.chunks[1].tokenEstimate = 10000
    /\ planOut.chunks[2].changes = SubSeq(planChanges, 3, 3)
    /\ planOut.chunks[2].tokenEstimate = 5000

\* C19: size-based chunking is order-preserving first-fit; three
\* equal-priority changes of 5,000 tokens each with a budget of 12,000 give
\* exactly two chunks, [change1, change2] with tokenEstimate 10,000 and then
\* [change3] with tokenEstimate 5,000.
C19_SizeChunkingIsOrderPreservingFirstFit ==
    (Planned /\ UsedStrategy = "by-size")
        => /\ OrderPreserved
           /\ ClosedWhenNextDoesNotFit
           /\ ThreeOfFiveThousand => TwoThenOne

C19_Witness ==
    /\ Planned
    /\ UsedStrategy = "by-size"
    /\ ThreeOfFiveThousand
    /\ \E k \in 1..3 : PlanContent[k].relatedFindings # << >>
    /\ Len(planOut.chunks) = 2

\* C23: no input change is lost: every change passed to analyzeAndChunk is
\* in at least one returned chunk, under every strategy.
C23_EveryChangeInSomeChunk ==
    Planned => \A f \in ChangedFiles : ChunksHolding(f) # {}

\* The part of C23 that holds: size-based chunking, which closes the chunk
\* and starts a new one.
EveryChangeInSomeChunkBySize ==
    (Planned /\ UsedStrategy = "by-size")
        => \A f \in ChangedFiles : ChunksHolding(f) # {}

\* C23 for changes that each fit the budget on their own.  It fails as well:
\* under the grouping strategies the changes of one group get one chunk, and
\* what does not fit beside the earlier ones is left out.
NoFittingChangeLost ==
    ( /\ Planned
      /\ \A k \in 1..Len(PlanContent) : ItemTokens(PlanContent[k]) <= planBudget )
        => \A f \in ChangedFiles : ChunksHolding(f) # {}

\* C24: the returned chunks form a partition: no change is in more than one
\* chunk, under every strategy.
C24_NoChangeInTwoChunks ==
    Planned => \A f \in ChangedFiles : Occurrences(f) <= 1

\* The part of C24 that holds: every strategy but by-severity, whose
\* priority ranges overlap.
NoChangeInTwoChunksUnlessBySeverity ==
    (Planned /\ UsedStrategy # "by-severity")
        => \A f \in ChangedFiles : Occurrences(f) <= 1

\* The aggregate signals of the call, counted on its inputs.
CriticalFindings == Len(SelectSeq(planFindings, LAMBDA f : f.severity = "critical"))
HighFindings == Len(SelectSeq(planFindings, LAMBDA f : f.severity = "high"))
TopLevelModules == { ModuleOf(f) : f \in ChangedFiles }

\* The kind of chunk ids each strategy produces.
ChunkIdKinds == { planOut.chunks[k].id[1] : k \in 1..Len(planOut.chunks) }

\* C28: with no strategy given, the strategy used is by-severity if there
\* are more than 5 critical findings or more than 10 critical plus high
\* findings; otherwise by-module if the changes span more than 5 top-level
\* modules; otherwise smart if there are more than 20 changes; otherwise
\* by-size.  The chunks are those of that strategy.
C28_StrategyFollowsAggregateSignals ==
    (Planned /\ planStrategy = "none")
        => /\ UsedStrategy =
                IF CriticalFindings > 5 \/ CriticalFindings + HighFindings > 10
                THEN "by-severity"
                ELSE IF Cardinality(TopLevelModules) > 5 THEN "by-module"
                ELSE IF Len(planChanges) > 20 THEN "smart"
                ELSE "by-size"
           /\ UsedStrategy = "by-severity" => ChunkIdKinds \subseteq { "severity" }
           /\ UsedStrategy = "by-module" => ChunkIdKinds \subseteq { "module" }
           /\ UsedStrategy = "smart" => ChunkIdKinds \subseteq { "critical", "module" }
           /\ UsedStrategy = "by-size" => ChunkIdKinds \subseteq { "chunk" }

\* C28 witness: a call with six critical findings, six top-level modules
\* and 21 changes used by-severity.
C28_Witness ==
    /\ Planned
    /\ planStrategy = "none"
    /\ CriticalFindings = 6
    /\ Cardinality(TopLevelModules) = 6
    /\ Len(planChanges) = 21
    /\ UsedStrategy = "by-severity"
    /\ planOut.chunks # << >>

\* config.maxChunks of a manager constructed without it
DefaultMaxChunks == 10

\* C37: the number of chunks returned by analyzeAndChunk never exceeds the
\* configured maxChunks (10 by default), for every input and strategy.
C37_ChunkCountWithinMaxChunks ==
    Planned => Len(planOut.chunks) <= DefaultMaxChunks

\* What bounds the number of chunks instead: under module-based chunking,
\* the number of top-level modules of the changes.
ChunkCountWithinModulesByModule ==
    (Planned /\ UsedStrategy = "by-module")
        => Len(planOut.chunks) <= Cardinality(TopLevelModules)

\* The chunks are in order of non-increasing chunk.priority.
PriorityOrdered(chunks) ==
    \A k \in 1..(Len(chunks) - 1) : chunks[k].priority >= chunks[k + 1].priority

\* C36: the chunks returned by analyzeAndChunk are ordered by
\* non-increasing chunk.priority under every strategy.
C36_ChunksInPriorityOrder ==
    Planned => PriorityOrdered(planOut.chunks)

\* The part of C36 that holds: size-based chunking fills the chunks from the
\* content in priority order, so their priorities do not increase.
ChunksInPriorityOrderBySize ==
    (Planned /\ UsedStrategy = "by-size") => PriorityOrdered(planOut.chunks)

-----------------------------------------------------------------------------
(* QueueManager over Bull                                                   *)
(*                                                                         *)
(* The queues are Bull queues.  What the model takes from Bull:             *)
(*   - queue.process(n, handler) runs at most n handlers of the queue at a  *)
(*     time, on jobs of the queue that wait, and none while it is paused;   *)
(*   - a handler that throws adds one to job.attemptsMade; the job is then  *)
(*     delayed for its backoff and waits again if attemptsMade is below     *)
(*     job.opts.attempts, and is moved to the failed set otherwise;         *)
(*   - job.retry() moves a failed job back to waiting and leaves its        *)
(*     attemptsMade as it is;                                               *)
(*   - removeOnComplete: true removes a job from the store when it          *)
(*     completes; removeOnFail: false keeps a failed job.                   *)
(***************************************************************************)

ConfiguredConcurrency == 2  \* the concurrency of a queue that is configured
ConfiguredAttempts == 2     \* the retryOptions.attempts of a queue that is configured
MaxRetryCalls == 1          \* retryFailedJobs calls

DefaultAttempts == 3    \* createQueue: retryOptions?.attempts || 3
DefaultConcurrency == 1 \* registerProcessor: queueConfig.concurrency || 1

\* registerProcessor: const concurrency = queueConfig.concurrency || 1
Concurrency(type) ==
    IF concurrency[type] = 0 THEN DefaultConcurrency ELSE concurrency[type]

\* createQueue: defaultJobOptions.attempts
QueueAttempts(type) ==
    IF retryAttempts[type] = 0 THEN DefaultAttempts ELSE retryAttempts[type]

Added == { j \in JobIds : jobs[j].status # "none" }

JobsIn(type, status) ==
    { j \in Added : jobs[j].type = type /\ jobs[j].status = status /\ jobs[j].stored }

\* getJobs(type, statuses): the ids of the jobs returned
getJobs(type, statuses) ==
    UNION { JobsIn(type, status) : status \in statuses }

\* The numbers of first attempts a processor throws on: every number below
\* the default attempts.
ThrowCounts == 0..(DefaultAttempts - 1)

\* The processor of the job throws on the attempt that is running: on every
\* attempt, or on its first `throwsFirst` ones.
HandlerThrows(job) ==
    job.throwsAlways \/ job.attemptsMade + 1 <= job.throwsFirst

\* The job types with an entry in config.queues: the first one; the other
\* type runs with the defaults.
QueueConfigs == { { "pr-analysis" } }

InitQueue ==
    /\ ReviewIdle
    /\ PlanIdle
    /\ RetryIdle
    /\ WebhookIdle
    /\ ManagerIdle
    /\ AuthIdle
    /\ ClientIdle
    /\ ContextIdle
    /\ \E configured \in QueueConfigs :
          /\ concurrency =
               [ t \in JobTypes |-> IF t \in configured THEN ConfiguredConcurrency ELSE 0 ]
          /\ retryAttempts =
               [ t \in JobTypes |-> IF t \in configured THEN ConfiguredAttempts ELSE 0 ]
    /\ processors = {}
    /\ paused = {}
    /\ jobs = [ j \in JobIds |-> NoJob ]
    /\ retryCalls = 0

\* registerProcessor(type, processor), when it does not throw
RegisterProcessor(type) ==
    /\ type \notin processors
    /\ processors' = processors \cup { type }
    /\ UNCHANGED << concurrency, retryAttempts, paused, jobs, retryCalls >>

\* addJob(type, data) with no options: the job takes the attempts of the
\* queue's defaultJobOptions.  What the processor does with the job is a
\* matter of its data: it throws always, or on the first `first` attempts.
AddJob(j, type, always, first) ==
    /\ jobs[j].status = "none"
    /\ \A k \in JobIds : k < j => jobs[k].status # "none"
    /\ always => first = 0
    /\ jobs' = [ jobs EXCEPT ![j] =
                   [ status |-> "waiting", type |-> type, stored |-> TRUE,
                     attemptsMade |-> 0,
                     attempts |-> QueueAttempts(type),
                     throwsAlways |-> always, throwsFirst |-> first ] ]
    /\ UNCHANGED << concurrency, retryAttempts, processors, paused, retryCalls >>

\* A variant of MayStart that takes jobs of a paused queue.
MayStartWhilePaused(type) ==
    /\ type \in processors
    /\ Cardinality({ j \in Added : jobs[j].type = type /\ jobs[j].status = "active" })
         < Concurrency(type)

\* A variant of MayStart with one pool of slots for all the types.
MayStartSharedSlots(type) ==
    /\ type \in processors
    /\ type \notin paused
    /\ Cardinality({ j \in Added : jobs[j].status = "active" }) < Concurrency(type)

\* Bull's worker may take a waiting job of the type.
MayStart(type) ==
    /\ type \in processors
    /\ type \notin paused
    /\ Cardinality(JobsIn(type, "active")) < Concurrency(type)

\* Bull takes a waiting job and calls the function given to queue.process.
StartJob(j) ==
    /\ jobs[j].status = "waiting"
    /\ MayStart(jobs[j].type)
    /\ jobs' = [ jobs EXCEPT ![j].status = "active" ]
    /\ UNCHANGED << concurrency, retryAttempts, processors, paused, retryCalls >>

\* A variant of AfterReturn that counts the attempt that succeeded.
AfterReturnCountingAttempt(job) ==
    [ job EXCEPT !.status = "completed", !.stored = FALSE,
                 !.attemptsMade = job.attemptsMade + 1 ]

\* Bull, after the function given to queue.process returned: the job is
\* completed and, with removeOnComplete: true, leaves the store.
AfterReturn(job) ==
    [ job EXCEPT !.status = "completed", !.stored = FALSE ]

\* The processor returns.
JobSucceeds(j) ==
    /\ jobs[j].status = "active"
    /\ ~HandlerThrows(jobs[j])
    /\ jobs' = [ jobs EXCEPT ![j] = AfterReturn(jobs[j]) ]
    /\ UNCHANGED << concurrency, retryAttempts, processors, paused, retryCalls >>

\* A variant of AfterThrow that gives up one attempt early.
AfterThrowOneAttemptShort(job) ==
    LET made == job.attemptsMade + 1
    IN [ job EXCEPT !.attemptsMade = made,
                    !.status = IF made + 1 < job.attempts THEN "delayed" ELSE "failed" ]

\* Bull, after the function given to queue.process threw: retry or fail.
AfterThrow(job) ==
    LET made == job.attemptsMade + 1
    IN [ job EXCEPT !.attemptsMade = made,
                    !.status = IF made < job.attempts THEN "delayed" ELSE "failed" ]

\* The processor throws; the catch of registerProcessor rethrows.
JobThrows(j) ==
    /\ jobs[j].status = "active"
    /\ HandlerThrows(jobs[j])
    /\ jobs' = [ jobs EXCEPT ![j] = AfterThrow(jobs[j]) ]
    /\ UNCHANGED << concurrency, retryAttempts, processors, paused, retryCalls >>

\* The backoff delay of a job to be retried is over.
BackoffElapses(j) ==
    /\ jobs[j].status = "delayed"
    /\ jobs' = [ jobs EXCEPT ![j].status = "waiting" ]
    /\ UNCHANGED << concurrency, retryAttempts, processors, paused, retryCalls >>

PauseQueue(type) ==
    /\ type \notin paused
    /\ paused' = paused \cup { type }
    /\ UNCHANGED << concurrency, retryAttempts, processors, jobs, retryCalls >>

ResumeQueue(type) ==
    /\ type \in paused
    /\ paused' = paused \ { type }
    /\ UNCHANGED << concurrency, retryAttempts, processors, jobs, retryCalls >>

\* job.retry() of Bull
RetryJob(job) == [ job EXCEPT !.status = "waiting" ]

\* retryFailedJobs(type): job.retry() on every failed job of the queue.  A
\* call that finds no failed job changes nothing and is left out.
RetryFailedJobs(type) ==
    /\ retryCalls < MaxRetryCalls
    /\ JobsIn(type, "failed") # {}
    /\ retryCalls' = retryCalls + 1
    /\ jobs' = [ j \in JobIds |->
                   IF j \in JobsIn(type, "failed") THEN RetryJob(jobs[j]) ELSE jobs[j] ]
    /\ UNCHANGED << concurrency, retryAttempts, processors, paused >>

NextQueue ==
    \/ \E t \in JobTypes : RegisterProcessor(t) /\ UNCHANGED exceptQueueVars
    \/ \E j \in JobIds, t \in JobTypes, a \in BOOLEAN, f \in ThrowCounts :
          AddJob(j, t, a, f) /\ UNCHANGED exceptQueueVars
    \/ \E j \in JobIds : StartJob(j) /\ UNCHANGED exceptQueueVars
    \/ \E j \in JobIds : JobSucceeds(j) /\ UNCHANGED exceptQueueVars
    \/ \E j \in JobIds : JobThrows(j) /\ UNCHANGED exceptQueueVars
    \/ \E j \in JobIds : BackoffElapses(j) /\ UNCHANGED exceptQueueVars
    \/ \E t \in JobTypes : PauseQueue(t) /\ UNCHANGED exceptQueueVars
    \/ \E t \in JobTypes : ResumeQueue(t) /\ UNCHANGED exceptQueueVars
    \/ \E t \in JobTypes : RetryFailedJobs(t) /\ UNCHANGED exceptQueueVars

SpecQueue == InitQueue /\ [][NextQueue]_vars

(***************************************************************************)
(* Jobs whose processor may never settle, and Bull's job option `timeout`.  *)
(* From Bull: a job added with opts.timeout has its attempt rejected with   *)
(* a timeout error once the handler has run for that long, and the         *)
(* rejection is handled as any other failure of the attempt; a job added   *)
(* without it has no limit.  addJob passes the caller's options to          *)
(* queue.add and adds no timeout of its own, and neither createQueue nor    *)
(* registerProcessor sets one.                                              *)
(***************************************************************************)

\* addJob(type, data, options): the processor of the job returns after
\* throwing on its first `first` attempts, or never settles (hangs);
\* hasTimeout says whether options.timeout is given.
AddJobWithOptions(j, type, first, hangs, hasTimeout) ==
    /\ jobs[j].status = "none"
    /\ \A k \in JobIds : k < j => jobs[k].status # "none"
    /\ jobs' = [ jobs EXCEPT ![j] =
                   [ status |-> "waiting", type |-> type, stored |-> TRUE,
                     attemptsMade |-> 0,
                     attempts |-> QueueAttempts(type),
                     throwsAlways |-> FALSE, throwsFirst |-> first,
                     hangs |-> hangs, hasTimeout |-> hasTimeout ] ]
    /\ UNCHANGED << concurrency, retryAttempts, processors, paused, retryCalls >>

\* The processor of a job that settles returns or throws.
ProcessorSettles(j) ==
    /\ jobs[j].status = "active"
    /\ ~jobs[j].hangs
    /\ (JobSucceeds(j) \/ JobThrows(j))

\* Bull's timer of a job with opts.timeout fires while the handler runs: the
\* attempt fails with a timeout error.
JobTimesOut(j) ==
    /\ jobs[j].status = "active"
    /\ jobs[j].hasTimeout
    /\ jobs' = [ jobs EXCEPT ![j] = AfterThrow(jobs[j]) ]
    /\ UNCHANGED << concurrency, retryAttempts, processors, paused, retryCalls >>

NextTimeout ==
    \/ \E t \in JobTypes : RegisterProcessor(t) /\ UNCHANGED exceptQueueVars
    \/ \E j \in JobIds, t \in JobTypes, f \in { 0, 1 }, h, o \in BOOLEAN :
          AddJobWithOptions(j, t, f, h, o) /\ UNCHANGED exceptQueueVars
    \/ \E j \in JobIds : StartJob(j) /\ UNCHANGED exceptQueueVars
    \/ \E j \in JobIds : ProcessorSettles(j) /\ UNCHANGED exceptQueueVars
    \/ \E j \in JobIds : JobTimesOut(j) /\ UNCHANGED exceptQueueVars
    \/ \E j \in JobIds : BackoffElapses(j) /\ UNCHANGED exceptQueueVars

\* A processor that settles does so in the end, a timer that is set fires
\* unless the handler settles first, and a backoff delay ends.
SpecTimeout ==
    /\ InitQueue
    /\ [][NextTimeout]_vars
    /\ \A j \in JobIds :
          /\ WF_vars(ProcessorSettles(j) /\ UNCHANGED exceptQueueVars)
          /\ WF_vars(JobTimesOut(j) /\ UNCHANGED exceptQueueVars)
          /\ WF_vars(BackoffElapses(j) /\ UNCHANGED exceptQueueVars)

(***************************************************************************)
(* The PR-analysis processor (EnhancedDemoProcessorSimple.createProcessor)  *)
(* as the processor of the pr-analysis queue.  The processor fetches the    *)
(* changed files of the PR and posts the review comment through the GitHub  *)
(* client; either call may throw.                                           *)
(***************************************************************************)

\* What the async function createProcessor returns does with a job: threw
\* says whether its promise rejects, result is the JobResult it resolves to.
\* The whole body is in one try whose catch returns a JobResult.
prProcessor(fetchThrows, postThrows) ==
    IF fetchThrows \/ postThrows
    THEN [ threw |-> FALSE,
           result |-> [ success |-> FALSE, code |-> "ENHANCED_DEMO_FAILED" ] ]
    ELSE [ threw |-> FALSE, result |-> [ success |-> TRUE, code |-> "none" ] ]

\* addJob(JobType.PR_ANALYSIS, data, options) of WebhookService
AddPRJob(j) ==
    /\ jobs[j].status = "none"
    /\ \A k \in JobIds : k < j => jobs[k].status # "none"
    /\ jobs' = [ jobs EXCEPT ![j] =
                   [ status |-> "waiting", type |-> "pr-analysis", stored |-> TRUE,
                     attemptsMade |-> 0,
                     attempts |-> DefaultAttempts,
                     processingFailed |-> FALSE,
                     returnvalue |-> [ none |-> TRUE ] ] ]
    /\ UNCHANGED << concurrency, retryAttempts, processors, paused, retryCalls >>

\* The function given to queue.process runs the processor on an active job:
\* it returns what the processor returns and rethrows what it throws.
RunPRProcessor(j, fetchThrows, postThrows) ==
    /\ jobs[j].status = "active"
    /\ LET out == prProcessor(fetchThrows, postThrows)
       IN jobs' = [ jobs EXCEPT ![j] =
                      IF out.threw
                      THEN [ AfterThrow(jobs[j]) EXCEPT
                               !.processingFailed = TRUE ]
                      ELSE [ AfterReturn(jobs[j]) EXCEPT
                               !.processingFailed = fetchThrows \/ postThrows,
                               !.returnvalue = out.result ] ]
    /\ UNCHANGED << concurrency, retryAttempts, processors, paused, retryCalls >>

NextProcessor ==
    \/ \E t \in JobTypes : RegisterProcessor(t) /\ UNCHANGED exceptQueueVars
    \/ \E j \in JobIds : AddPRJob(j) /\ UNCHANGED exceptQueueVars
    \/ \E j \in JobIds : StartJob(j) /\ UNCHANGED exceptQueueVars
    \/ \E j \in JobIds, f, c \in BOOLEAN :
          RunPRProcessor(j, f, c) /\ UNCHANGED exceptQueueVars
    \/ \E t \in JobTypes : PauseQueue(t) /\ UNCHANGED exceptQueueVars
    \/ \E t \in JobTypes : ResumeQueue(t) /\ UNCHANGED exceptQueueVars

SpecProcessor == InitQueue /\ [][NextProcessor]_vars

(***************************************************************************)
(* The queue manager as an event emitter, with its shutdown.  addJob emits  *)
(* job:created after its await of queue.add; the listeners setupQueueEvents *)
(* puts on the Bull queue turn 'active', 'completed' and 'failed' into      *)
(* job:started, job:completed and job:failed.  From Bull: the job is in the *)
(* queue, and a worker may take it, once queue.add has written it, which is *)
(* before the promise of queue.add resolves; 'failed' is emitted for every  *)
(* failed attempt; queue.close() takes no new job and resolves when the     *)
(* jobs that are active have finished.                                      *)
(***************************************************************************)

\* this.emit(event, { jobId, ... }): the listeners on the manager receive
\* the event, unless shutdown has removed them.
Emit(j, event) ==
    IF shutdownPc = "done" THEN emitted
    ELSE [ emitted EXCEPT ![j] = Append(emitted[j], event) ]

CallReturned(op) == [ op |-> op, error |-> "none" ]

CallThrew(op, message) == [ op |-> op, error |-> message ]

\* A variant of AddJobThrows without the isShuttingDown test.
AddJobThrowsOnlyWithoutQueue(type) ==
    IF type \notin queues THEN "Queue not found" ELSE "none"

\* addJob(type, data): the error thrown before queue.add, "none" if none
AddJobThrows(type) ==
    IF isShuttingDown THEN "Queue manager is shutting down"
    ELSE IF type \notin queues THEN "Queue not found"
    ELSE "none"

\* The processors of the model: the one of pr-analysis returns, the one of
\* code-analysis throws on the first attempt of a job and then returns.
FirstAttemptsThrown(type) == IF type = "code-analysis" THEN 1 ELSE 0

\* addJob(type, data) up to the await of queue.add: it throws, or the job is
\* written to the queue and the call waits for the promise.
AddJobCalled(j, type) ==
    /\ jobs[j].status = "none"
    /\ \A k \in JobIds : k < j => jobs[k].status # "none"
    /\ IF AddJobThrows(type) # "none"
       THEN /\ lastCall' = CallThrew("addJob", AddJobThrows(type))
            /\ UNCHANGED jobs
       ELSE /\ lastCall' = CallReturned("queue.add")
            /\ jobs' = [ jobs EXCEPT ![j] =
                           [ status |-> "waiting", type |-> type, stored |-> TRUE,
                             attemptsMade |-> 0,
                             attempts |-> QueueAttempts(type),
                             throwsAlways |-> FALSE,
                             throwsFirst |-> FirstAttemptsThrown(type),
                             addPc |-> "awaiting" ] ]
    /\ UNCHANGED << concurrency, retryAttempts, processors, paused, retryCalls,
                    queues, isShuttingDown, shutdownPc, emitted >>

\* addJob after queue.add resolved: job:created is emitted, the job returned
AddJobResumes(j) ==
    /\ jobs[j].status # "none"
    /\ jobs[j].addPc = "awaiting"
    /\ jobs' = [ jobs EXCEPT ![j].addPc = "returned" ]
    /\ emitted' = Emit(j, "job:created")
    /\ lastCall' = CallReturned("addJob")
    /\ UNCHANGED << concurrency, retryAttempts, processors, paused, retryCalls,
                    queues, isShuttingDown, shutdownPc >>

\* registerProcessor(type, processor), with the calls that throw
RegisterProcessorCalled(type) ==
    /\ IF type \in processors
       THEN /\ lastCall' = CallThrew("registerProcessor", "Processor already registered")
            /\ UNCHANGED processors
       ELSE /\ processors' = processors \cup { type }
            /\ lastCall' = IF type \notin queues
                           THEN CallThrew("registerProcessor", "Queue not found")
                           ELSE CallReturned("registerProcessor")
    /\ UNCHANGED << concurrency, retryAttempts, paused, jobs, retryCalls,
                    queues, isShuttingDown, shutdownPc, emitted >>

\* Bull takes a waiting job of an open queue that has a process function
\* ('active')
JobStarted(j) ==
    /\ shutdownPc = "none"
    /\ jobs[j].status = "waiting"
    /\ jobs[j].type \in queues
    /\ StartJob(j)
    /\ emitted' = Emit(j, "job:started")
    /\ UNCHANGED << queues, isShuttingDown, shutdownPc, lastCall >>

\* The processor returns ('completed')
JobCompleted(j) ==
    /\ JobSucceeds(j)
    /\ emitted' = Emit(j, "job:completed")
    /\ UNCHANGED << queues, isShuttingDown, shutdownPc, lastCall >>

\* The processor throws ('failed', on every failed attempt)
JobFailed(j) ==
    /\ JobThrows(j)
    /\ emitted' = Emit(j, "job:failed")
    /\ UNCHANGED << queues, isShuttingDown, shutdownPc, lastCall >>

\* The backoff delay of a job of an open queue is over.
JobBackoffElapses(j) ==
    /\ shutdownPc = "none"
    /\ BackoffElapses(j)
    /\ UNCHANGED managerVars

\* shutdown() up to await Promise.all(closePromises); a call made while
\* isShuttingDown is set returns at once.
ShutdownCalled ==
    /\ IF isShuttingDown
       THEN UNCHANGED << isShuttingDown, shutdownPc >>
       ELSE /\ isShuttingDown' = TRUE
            /\ shutdownPc' = "closing"
    /\ lastCall' = CallReturned("shutdown")
    /\ UNCHANGED << queueVars, queues, emitted >>

\* The queues are closed: shutdown clears the queues and the processors and
\* removes the listeners.
ShutdownCloses ==
    /\ shutdownPc = "closing"
    /\ \A j \in JobIds : jobs[j].status # "active"
    /\ shutdownPc' = "done"
    /\ queues' = {}
    /\ processors' = {}
    /\ UNCHANGED << concurrency, retryAttempts, paused, jobs, retryCalls,
                    isShuttingDown, emitted, lastCall >>

NextManager ==
    \/ \E t \in JobTypes : RegisterProcessorCalled(t) /\ UNCHANGED exceptManagerVars
    \/ \E j \in JobIds, t \in JobTypes :
          AddJobCalled(j, t) /\ UNCHANGED exceptManagerVars
    \/ \E j \in JobIds : AddJobResumes(j) /\ UNCHANGED exceptManagerVars
    \/ \E j \in JobIds : JobStarted(j) /\ UNCHANGED exceptManagerVars
    \/ \E j \in JobIds : JobCompleted(j) /\ UNCHANGED exceptManagerVars
    \/ \E j \in JobIds : JobFailed(j) /\ UNCHANGED exceptManagerVars
    \/ \E j \in JobIds : JobBackoffElapses(j) /\ UNCHANGED exceptManagerVars
    \/ ShutdownCalled /\ UNCHANGED exceptManagerVars
    \/ ShutdownCloses /\ UNCHANGED exceptManagerVars

SpecManager == InitQueue /\ [][NextManager]_vars


-----------------------------------------------------------------------------
(* Properties of the queues                                                 *)
(***************************************************************************)

ActiveOf(type) == JobsIn(type, "active")

\* C5: after any sequence of queue operations, attemptsMade of a job never
\* exceeds the job's maximum attempts.
C5_AttemptsMadeWithinMaximum ==
    \A j \in Added : jobs[j].attemptsMade <= jobs[j].attempts

\* The part of C5 that the queues keep: a failed job changes only by a
\* retryFailedJobs call; Bull does not retry it by itself.
FailedJobIsNotRetriedAutomatically ==
    [][\A j \in Added :
          (jobs[j].status = "failed" /\ retryCalls' = retryCalls)
            => jobs'[j] = jobs[j]]_vars

\* C6: a job whose handler throws on every attempt never completes and is
\* not failed before its attempts are used up: it is failed with
\* attemptsMade = attempts as long as nobody calls retryFailedJobs; a failed
\* one is returned by getJobs(type, [failed]); and every step other than a
\* retryFailedJobs call leaves it failed.
C6_AlwaysThrowingJobFailsAtMaximumAndStays ==
    /\ [](\A j \in Added :
            jobs[j].throwsAlways =>
              /\ jobs[j].status # "completed"
              /\ jobs[j].status = "failed" =>
                   /\ jobs[j].attemptsMade >= jobs[j].attempts
                   /\ j \in getJobs(jobs[j].type, { "failed" })
              /\ retryCalls = 0 =>
                   /\ jobs[j].attemptsMade <= jobs[j].attempts
                   /\ jobs[j].status = "failed" <=>
                        jobs[j].attemptsMade = jobs[j].attempts)
    /\ [][\A j \in Added :
            (jobs[j].throwsAlways /\ jobs[j].status = "failed" /\ retryCalls' = retryCalls)
              => jobs'[j].status = "failed"]_vars

\* An always-throwing job with the default three attempts has failed after
\* its third attempt and is listed as failed.
C6_Witness ==
    \E j \in Added :
        /\ jobs[j].throwsAlways
        /\ jobs[j].attempts = DefaultAttempts
        /\ jobs[j].attemptsMade = DefaultAttempts
        /\ j \in getJobs(jobs[j].type, { "failed" })

\* C7: a job whose processor throws on its first k attempts, k below the
\* job's maximum attempts, and returns on the next one never fails, and is
\* completed with attemptsMade = k.
C7_CompletedAfterKThrowsHasAttemptsMadeK ==
    \A j \in Added :
        (~jobs[j].throwsAlways /\ jobs[j].throwsFirst < jobs[j].attempts) =>
          /\ jobs[j].status # "failed"
          /\ jobs[j].attemptsMade <= jobs[j].throwsFirst
          /\ jobs[j].status = "completed" => jobs[j].attemptsMade = jobs[j].throwsFirst

\* The scenario of the specification: three attempts, the first two throw,
\* the job is completed with attemptsMade = 2.
C7_Witness ==
    \E j \in Added :
        /\ ~jobs[j].throwsAlways
        /\ jobs[j].attempts = 3
        /\ jobs[j].throwsFirst = 2
        /\ jobs[j].status = "completed"
        /\ jobs[j].attemptsMade = 2

\* C8: the active jobs of a type are never more than the type's concurrency,
\* and a waiting job of a type whose queue is processed, is not paused and
\* has a free slot can start, whatever the jobs of the other types do.
C8_ActiveWithinConcurrencyPerType ==
    /\ \A t \in JobTypes : Cardinality(ActiveOf(t)) <= Concurrency(t)
    /\ \A j \in Added :
          ( /\ jobs[j].status = "waiting"
            /\ jobs[j].type \in processors
            /\ jobs[j].type \notin paused
            /\ Cardinality(ActiveOf(jobs[j].type)) < Concurrency(jobs[j].type) )
          => ENABLED StartJob(j)

\* The slots of one type are all taken while a job of another type runs.
C8_Witness ==
    \E t, u \in JobTypes :
        /\ t # u
        /\ Cardinality(ActiveOf(t)) = Concurrency(t)
        /\ ActiveOf(t) # {}
        /\ ActiveOf(u) # {}

\* C15: while the queue of a type is paused no waiting job of the type
\* becomes active; a waiting job of a type that is not paused, whose queue
\* is processed and has a free slot, can start while other types are
\* paused.
C15_PausedQueueStartsNoJob ==
    /\ [][\A j \in Added :
            (jobs[j].status = "waiting" /\ jobs[j].type \in paused)
              => jobs'[j].status # "active"]_vars
    /\ [](\A j \in Added :
            ( /\ paused # {}
              /\ jobs[j].status = "waiting"
              /\ jobs[j].type \notin paused
              /\ jobs[j].type \in processors
              /\ Cardinality(ActiveOf(jobs[j].type)) < Concurrency(jobs[j].type) )
            => ENABLED StartJob(j))

\* A job of a paused type waits although its queue is processed and has a
\* free slot, while a job of the other type runs.
C15_Witness ==
    \E t, u \in JobTypes :
        /\ t \in paused
        /\ t \in processors
        /\ ActiveOf(t) = {}
        /\ JobsIn(t, "waiting") # {}
        /\ u \notin paused
        /\ ActiveOf(u) # {}

\* getQueueMetrics: queue.getCompleted(0, 100) and queue.getFailed(0, 100),
\* the jobs of the queue's completed and failed sets (the model has fewer
\* than 101 jobs, so the range takes them all).
getCompleted(type) == JobsIn(type, "completed")
getFailed(type) == JobsIn(type, "failed")

\* getQueueMetrics: errorRate, as the fraction << numerator, denominator >>
errorRate(type) ==
    LET totalProcessed == Cardinality(getCompleted(type)) + Cardinality(getFailed(type))
    IN IF totalProcessed > 0
       THEN << Cardinality(getFailed(type)), totalProcessed >>
       ELSE << 0, 1 >>

\* The jobs of the type that completed, and those that failed and were not
\* retried since.
HaveCompleted(type) == { j \in Added : jobs[j].type = type /\ jobs[j].status = "completed" }
HaveFailed(type) == { j \in Added : jobs[j].type = type /\ jobs[j].status = "failed" }

\* C21: getQueueMetrics reports errorRate = F / (F + C) for the F failed and
\* the C completed jobs of the queue, every completed job counted, and 0
\* when F + C = 0.
C21_ErrorRateCountsCompletedJobs ==
    \A t \in JobTypes :
        LET F == Cardinality(HaveFailed(t))
            C == Cardinality(HaveCompleted(t))
        IN IF F + C = 0
           THEN errorRate(t)[1] = 0
           ELSE errorRate(t)[1] * (F + C) = F * errorRate(t)[2]

\* What getQueueMetrics reports instead: completed jobs have left the store
\* (removeOnComplete: true), so the rate is 1 as soon as a job of the queue
\* is in the failed set, and 0 otherwise.
ErrorRateIsAllOrNothing ==
    \A t \in JobTypes :
        /\ getCompleted(t) = {}
        /\ errorRate(t) = IF HaveFailed(t) # {}
                          THEN << Cardinality(HaveFailed(t)), Cardinality(HaveFailed(t)) >>
                          ELSE << 0, 1 >>

\* C22: an active job whose execution exceeds its timeout is terminated and
\* marked failed; no job stays active indefinitely.
C22_NoJobActiveIndefinitely ==
    \A j \in JobIds : (jobs[j].status = "active") ~> (jobs[j].status # "active")

\* The part of C22 that holds: a job that was added with options.timeout
\* does not stay active.
JobWithTimeoutLeavesActive ==
    \A j \in JobIds :
        (jobs[j].status = "active" /\ jobs[j].hasTimeout) ~> (jobs[j].status # "active")

\* A timeout ends the attempt, not always the job: the job is marked failed
\* when it was its last attempt and is delayed for a retry otherwise.
TimeoutFailsTheAttempt ==
    [][\A j \in JobIds :
         (JobTimesOut(j) /\ UNCHANGED exceptQueueVars)
            => /\ jobs'[j].attemptsMade = jobs[j].attemptsMade + 1
               /\ jobs'[j].status =
                    IF jobs'[j].attemptsMade < jobs[j].attempts THEN "delayed" ELSE "failed"]_vars

\* C27: a failure inside the PR-analysis processor reaches the queue as a
\* processor failure: the job is retried with backoff and never ends in
\* completed status when its processing failed.
C27_FailedProcessingNeverCompleted ==
    \A j \in Added :
        /\ jobs[j].status = "completed" => ~jobs[j].processingFailed
        /\ jobs[j].processingFailed => jobs[j].attemptsMade >= 1

\* What happens instead: a job whose processing failed is completed at once
\* with success: false in its return value, and no attempt is ever counted
\* as failed.
FailedProcessingCompletesTheJob ==
    \A j \in Added :
        /\ jobs[j].attemptsMade = 0
        /\ jobs[j].status \in { "waiting", "active", "completed" }
        /\ jobs[j].processingFailed
              => /\ jobs[j].status = "completed"
                 /\ jobs[j].returnvalue.success = FALSE

-----------------------------------------------------------------------------
(* RetryManager.executeWithRetry                                            *)
(*                                                                         *)
(* Attempt the operation; on failure, if attemptsMade < maxAttempts, sleep  *)
(* for min(maxDelay, initialDelay * backoffMultiplier^attemptsMade),        *)
(* jittered by a random factor within +-jitterFactor, and retry; once the   *)
(* attempts are exhausted, throw a terminal error that carries the last     *)
(* underlying error.  A rate-limit error that suggests a retry-after delay  *)
(* overrides the computed delay of that attempt.                            *)
(***************************************************************************)

MaxPolicyAttempts == 6      \* largest retry.maxAttempts configured
SuggestedRetryAfter == 30000 \* the retry-after delay a rate-limit error suggests

\* The errors the operation throws; retryAfter 0: none suggested.
OperationErrors ==
    { [ kind |-> "timeout", retryAfter |-> 0 ],
      [ kind |-> "rate-limit", retryAfter |-> 0 ],
      [ kind |-> "rate-limit", retryAfter |-> SuggestedRetryAfter ] }

RECURSIVE Power(_, _)
Power(b, n) == IF n = 0 THEN 1 ELSE b * Power(b, n - 1)

Min(a, b) == IF a <= b THEN a ELSE b

\* delay = min(maxDelayMs, initialDelayMs * backoffMultiplier^attemptsMade)
BackoffDelay(p, made) ==
    Min(p.maxDelay, p.initialDelay * Power(p.backoffMultiplier, made))

\* The percentages the random jitter factor is drawn from: the two ends of
\* +-jitterFactor and the middle.
JitterChoices(p) == { 0 - p.jitterPercent, 0, p.jitterPercent }

Jittered(delay, percent) == (delay * (100 + percent)) \div 100

\* The delay slept after an attempt failed with error e.
RetryDelay(p, made, e, percent) ==
    IF e.retryAfter # 0 THEN e.retryAfter
    ELSE Jittered(BackoffDelay(p, made), percent)

InitRetry ==
    /\ ReviewIdle
    /\ PlanIdle
    /\ QueueIdle
    /\ WebhookIdle
    /\ ManagerIdle
    /\ AuthIdle
    /\ ClientIdle
    /\ ContextIdle
    /\ \E n \in 1..MaxPolicyAttempts :
          policy = [ DefaultRetryPolicy EXCEPT !.maxAttempts = n ]
    /\ retryPc = "idle"
    /\ attemptsMade = 0
    /\ invocations = 0
    /\ delays = << >>
    /\ lastError = NoError
    /\ terminalError = NoError

\* executeWithRetry(operation, context): the first attempt starts.
ExecuteWithRetry ==
    /\ retryPc = "idle"
    /\ retryPc' = "attempting"
    /\ invocations' = 1
    /\ UNCHANGED << policy, attemptsMade, delays, lastError, terminalError >>

\* The operation returns: executeWithRetry returns its result.
OperationReturns ==
    /\ retryPc = "attempting"
    /\ retryPc' = "returned"
    /\ UNCHANGED << policy, attemptsMade, invocations, delays, lastError, terminalError >>

\* The operation throws e: sleep and retry, or give up.
OperationThrows(e, percent) ==
    /\ retryPc = "attempting"
    /\ attemptsMade' = attemptsMade + 1
    /\ lastError' = e
    /\ IF attemptsMade + 1 < policy.maxAttempts
       THEN /\ retryPc' = "sleeping"
            /\ delays' = Append(delays, RetryDelay(policy, attemptsMade + 1, e, percent))
            /\ UNCHANGED terminalError
       ELSE /\ retryPc' = "thrown"
            /\ terminalError' = [ kind |-> "terminal", cause |-> e ]
            /\ UNCHANGED delays
    /\ UNCHANGED << policy, invocations >>

\* The sleep is over: the next attempt starts.
SleepEnds ==
    /\ retryPc = "sleeping"
    /\ retryPc' = "attempting"
    /\ invocations' = invocations + 1
    /\ UNCHANGED << policy, attemptsMade, delays, lastError, terminalError >>

NextRetry ==
    \/ ExecuteWithRetry /\ UNCHANGED exceptRetryVars
    \/ OperationReturns /\ UNCHANGED exceptRetryVars
    \/ \E e \in OperationErrors, percent \in JitterChoices(policy) :
          OperationThrows(e, percent) /\ UNCHANGED exceptRetryVars
    \/ SleepEnds /\ UNCHANGED exceptRetryVars

SpecRetry == InitRetry /\ [][NextRetry]_vars

\* C11: executeWithRetry with maxAttempts = N gives up on an operation that
\* fails every time after exactly N invocations, with a terminal error that
\* carries the last error thrown; the delays slept between the attempts
\* never decrease and none is above maxDelay.
C11_RetryBound ==
    /\ retryPc = "thrown" =>
          /\ invocations = policy.maxAttempts
          /\ terminalError = [ kind |-> "terminal", cause |-> lastError ]
    /\ \A i \in 1..Len(delays) :
          /\ delays[i] <= policy.maxDelay
          /\ i > 1 => delays[i - 1] <= delays[i]

\* The part of C11 that holds: exactly maxAttempts invocations, and the
\* terminal error carries the last underlying error.
TerminalErrorAfterMaxAttempts ==
    retryPc = "thrown" =>
        /\ invocations = policy.maxAttempts
        /\ Len(delays) = policy.maxAttempts - 1
        /\ terminalError = [ kind |-> "terminal", cause |-> lastError ]

\* C11 holds of the computed delays when no error suggests a retry-after
\* and the jitter is left out.
BackoffDelaysBeforeJitter ==
    \A n \in 1..MaxPolicyAttempts :
        /\ BackoffDelay(policy, n) <= policy.maxDelay
        /\ n > 1 => BackoffDelay(policy, n - 1) <= BackoffDelay(policy, n)

-----------------------------------------------------------------------------
(* WebhookService.processWebhook and WebhookValidator                       *)
(*                                                                         *)
(* A request carries the raw body GitHub sent, the x-hub-signature-256      *)
(* header and the x-github-event header.  Fastify parses the body; the      *)
(* service signs JSON.stringify of the parsed body, which is the compact    *)
(* text of the payload whatever the spacing of the raw body was.            *)
(* HMAC-SHA256 is modelled as an injective function of the secret and the   *)
(* text.                                                                    *)
(***************************************************************************)

\* config.GITHUB_WEBHOOK_SECRET, and a secret that is not the configured one
Secret == "configured secret"
OtherSecret == "other secret"

\* The events of the model: the x-github-event header and the payload.
Events ==
    { [ eventType |-> "pull_request", action |-> "opened", repository |-> TRUE ],
      [ eventType |-> "pull_request", action |-> "closed", repository |-> TRUE ],
      [ eventType |-> "push", action |-> "none", repository |-> TRUE ],
      [ eventType |-> "pull_request", action |-> "opened", repository |-> FALSE ] }

\* The raw bodies: the JSON text of an event's payload, compact or spaced.
RawBodies == [ event : Events, spaced : BOOLEAN ]

\* request.body: the payload Fastify parsed from the raw body
ParsedBody(raw) == raw.event

\* JSON.stringify(payload): the compact text of the payload
Stringify(payload) == [ event |-> payload, spaced |-> FALSE ]

\* crypto.createHmac('sha256', secret).update(text).digest('hex')
computeSignature(secret, text) == [ secret |-> secret, text |-> text ]

\* The x-hub-signature-256 headers sent with a raw body: none, a sha1
\* signature, 'sha256=' followed by characters that are no hex digest, and
\* 'sha256=' followed by the digest of the raw body or of its compact text
\* under the configured or another secret.
SignaturesFor(raw) ==
    { [ form |-> "missing" ],
      [ form |-> "sha1", digest |-> computeSignature(Secret, raw) ],
      [ form |-> "sha256", hex |-> FALSE ] }
    \cup { [ form |-> "sha256", hex |-> TRUE, digest |-> computeSignature(k, t) ] :
             k \in { Secret, OtherSecret },
             t \in { raw, Stringify(ParsedBody(raw)) } }

\* validateSignature(payload, signature) with SKIP_WEBHOOK_VALIDATION set:
\* every signature is taken as valid.
validateSignatureSkipped(text, signature) == "valid"

\* validateSignature(payload, signature): "valid" or the error
validateSignature(text, signature) ==
    IF signature.form = "missing" THEN "Missing signature header"
    ELSE IF signature.form # "sha256" THEN "Invalid signature format"
    ELSE IF signature.hex /\ signature.digest = computeSignature(Secret, text)
    THEN "valid"
    ELSE "Signature verification failed"

\* validatePayload(payload)
validatePayload(payload) ==
    IF ~payload.repository THEN "Missing repository information" ELSE "valid"

\* isRelevantEvent(eventType, payload)
isRelevantEvent(eventType, payload) ==
    /\ eventType = "pull_request"
    /\ payload.action \in { "opened", "synchronize", "reopened" }

\* What the deduplicator keys an event by: delivery id, event type and
\* payload; a redelivery has them all equal.
EventKey(req) == ParsedBody(req.raw)

\* deduplicator.isDuplicate: the event was marked as processed
isDuplicate(req) == EventKey(req) \in processedEvents

Reply(req, code, status) ==
    [ req EXCEPT !.pc = "replied", !.code = code, !.status = status ]

InitWebhook ==
    /\ ReviewIdle
    /\ PlanIdle
    /\ QueueIdle
    /\ RetryIdle
    /\ ManagerIdle
    /\ AuthIdle
    /\ ClientIdle
    /\ ContextIdle
    /\ skipValidation \in BOOLEAN
    /\ hasQueueManager \in BOOLEAN
    /\ requests = [ r \in Requests |-> NoRequest ]
    /\ processedEvents = {}

\* processWebhook(request, reply) up to await rateLimiter.checkRateLimit
ProcessWebhook(r, raw, signature) ==
    /\ requests[r].pc = "none"
    /\ requests' = [ requests EXCEPT ![r] =
                       [ pc |-> "checkRateLimit", raw |-> raw, signature |-> signature,
                         code |-> 0, status |-> "none",
                         marked |-> FALSE, enqueued |-> FALSE ] ]
    /\ UNCHANGED << skipValidation, hasQueueManager, processedEvents >>

\* checkRateLimit resolved: the validations, up to await isDuplicate
RateLimitChecked(r, allowed) ==
    /\ requests[r].pc = "checkRateLimit"
    /\ LET req == requests[r]
           payload == ParsedBody(req.raw)
           rawPayload == Stringify(payload)
           signatureValidation ==
               IF skipValidation
               THEN validateSignatureSkipped(rawPayload, req.signature)
               ELSE validateSignature(rawPayload, req.signature)
       IN requests' = [ requests EXCEPT ![r] =
            IF ~allowed THEN Reply(req, 429, "Rate limit exceeded")
            ELSE IF signatureValidation # "valid" THEN Reply(req, 401, "Unauthorized")
            ELSE IF validatePayload(payload) # "valid" THEN Reply(req, 400, "Bad Request")
            ELSE IF ~isRelevantEvent(payload.eventType, payload)
            THEN Reply(req, 200, "ignored")
            ELSE [ req EXCEPT !.pc = "isDuplicate" ] ]
    /\ UNCHANGED << skipValidation, hasQueueManager, processedEvents >>

\* isDuplicate resolved: answer 'duplicate', or call markAsProcessed
DuplicateChecked(r) ==
    /\ requests[r].pc = "isDuplicate"
    /\ requests' = [ requests EXCEPT ![r] =
                       IF isDuplicate(requests[r])
                       THEN Reply(requests[r], 200, "duplicate")
                       ELSE [ requests[r] EXCEPT !.pc = "markAsProcessed" ] ]
    /\ UNCHANGED << skipValidation, hasQueueManager, processedEvents >>

\* markAsProcessed resolved; queueForAnalysis up to await addJob
MarkedAsProcessed(r) ==
    /\ requests[r].pc = "markAsProcessed"
    /\ processedEvents' = processedEvents \cup { EventKey(requests[r]) }
    /\ LET req == [ requests[r] EXCEPT !.marked = TRUE ]
       IN requests' = [ requests EXCEPT ![r] =
            IF ~hasQueueManager THEN Reply(req, 200, "accepted")
            ELSE [ req EXCEPT !.pc = "addJob" ] ]
    /\ UNCHANGED << skipValidation, hasQueueManager >>

\* queueManager.addJob resolved: the job is in the queue
JobAdded(r) ==
    /\ requests[r].pc = "addJob"
    /\ requests' = [ requests EXCEPT ![r] =
                       Reply([ requests[r] EXCEPT !.enqueued = TRUE ], 200, "accepted") ]
    /\ UNCHANGED << skipValidation, hasQueueManager, processedEvents >>

\* queueManager.addJob rejected: the catch of processWebhook answers 500
AddJobFailed(r) ==
    /\ requests[r].pc = "addJob"
    /\ requests' = [ requests EXCEPT ![r] =
                       Reply(requests[r], 500, "Internal Server Error") ]
    /\ UNCHANGED << skipValidation, hasQueueManager, processedEvents >>

NextWebhook ==
    \/ \E r \in Requests, raw \in RawBodies :
          \E signature \in SignaturesFor(raw) :
              ProcessWebhook(r, raw, signature) /\ UNCHANGED exceptWebhookVars
    \/ \E r \in Requests, allowed \in BOOLEAN :
          RateLimitChecked(r, allowed) /\ UNCHANGED exceptWebhookVars
    \/ \E r \in Requests : DuplicateChecked(r) /\ UNCHANGED exceptWebhookVars
    \/ \E r \in Requests : MarkedAsProcessed(r) /\ UNCHANGED exceptWebhookVars
    \/ \E r \in Requests : JobAdded(r) /\ UNCHANGED exceptWebhookVars
    \/ \E r \in Requests : AddJobFailed(r) /\ UNCHANGED exceptWebhookVars

SpecWebhook == InitWebhook /\ [][NextWebhook]_vars

Received == { r \in Requests : requests[r].pc # "none" }

\* The signature header is 'sha256=' followed by the hex HMAC-SHA256 of the
\* request's body under the configured secret.
SignatureMatchesBody(req) ==
    /\ req.signature.form = "sha256"
    /\ req.signature.hex
    /\ req.signature.digest = computeSignature(Secret, req.raw)

\* C16: a request whose signature is missing, malformed or not the HMAC of
\* its body under the configured secret is never marked as processed,
\* never has a job enqueued, and is answered 401 (or 429 when the rate
\* limiter refused it before the signature was looked at), under every
\* configuration.
C16_BadSignatureRejected ==
    \A r \in Received :
        ~SignatureMatchesBody(requests[r]) =>
            /\ ~requests[r].marked
            /\ ~requests[r].enqueued
            /\ requests[r].pc \in { "checkRateLimit", "replied" }
            /\ requests[r].pc = "replied" => requests[r].code \in { 401, 429 }

\* The part of C16 that holds: with validation on, a request whose
\* signature is not the HMAC of the text the service signs is answered 401
\* or 429 and goes no further.
BadSignatureRejectedWhenValidating ==
    \A r \in Received :
        ( /\ ~skipValidation
          /\ validateSignature(Stringify(ParsedBody(requests[r].raw)),
                               requests[r].signature) # "valid" ) =>
            /\ ~requests[r].marked
            /\ ~requests[r].enqueued
            /\ requests[r].pc \in { "checkRateLimit", "replied" }
            /\ requests[r].pc = "replied" => requests[r].code \in { 401, 429 }

\* Two deliveries of one event: the same delivery id, event type and payload.
SameEvent(r, q) ==
    /\ r \in Received
    /\ q \in Received
    /\ EventKey(requests[r]) = EventKey(requests[q])

\* The request got past the duplicate check: isDuplicate resolved false.
PastDuplicateCheck(r) ==
    \/ requests[r].pc \in { "markAsProcessed", "addJob" }
    \/ requests[r].marked

\* C29: of two deliveries of the same event that are processed
\* concurrently, at most one gets past the duplicate check, so at most one
\* analysis job is enqueued for the event.
C29_OneDeliveryPastDuplicateCheck ==
    \A r, q \in Requests :
        ( r # q /\ SameEvent(r, q) ) =>
            /\ ~( PastDuplicateCheck(r) /\ PastDuplicateCheck(q) )
            /\ ~( requests[r].enqueued /\ requests[q].enqueued )

\* The consequence of C29 alone, which fails as well: one event is never
\* enqueued twice.
OneJobPerEvent ==
    \A r, q \in Requests :
        ( r # q /\ SameEvent(r, q) ) =>
            ~( requests[r].enqueued /\ requests[q].enqueued )

\* What the duplicate check does give: a delivery whose check resolves
\* after the event was marked is answered 'duplicate' and goes no further.
DuplicateCheckedAfterMarkIsRefused ==
    [][ \A r \in Requests :
          ( /\ requests[r].pc = "isDuplicate"
            /\ requests'[r].pc # "isDuplicate"
            /\ EventKey(requests[r]) \in processedEvents ) =>
              /\ requests'[r].pc = "replied"
              /\ requests'[r].status = "duplicate"
              /\ ~requests'[r].marked
              /\ ~requests'[r].enqueued ]_vars

\* The request was answered 500 because queueManager.addJob rejected.
EnqueueFailed(r) ==
    /\ requests[r].pc = "replied"
    /\ requests[r].code = 500

\* A job was enqueued for the event of request r by some delivery.
JobEnqueuedFor(r) ==
    \E q \in Requests : SameEvent(r, q) /\ requests[q].enqueued

\* C30: when enqueueing the analysis job fails and the webhook is answered
\* 500, the event is not left marked as processed, and no delivery of it is
\* answered 'duplicate' while no job was enqueued for it.
C30_FailedEnqueueLeavesEventUnmarked ==
    \A r \in Requests :
        ( EnqueueFailed(r) /\ ~JobEnqueuedFor(r) ) =>
            /\ EventKey(requests[r]) \notin processedEvents
            /\ \A q \in Requests :
                   SameEvent(r, q) => requests[q].status # "duplicate"

\* The second half of C30 alone, which fails as well: no redelivery of an
\* event whose enqueueing failed is answered 'duplicate' without a job.
RedeliveryAfterFailedEnqueueNotRefused ==
    \A r, q \in Requests :
        ( EnqueueFailed(r) /\ SameEvent(r, q) /\ ~JobEnqueuedFor(r) ) =>
            requests[q].status # "duplicate"

\* What the code does instead: the event of a delivery answered 500 stays
\* marked as processed.
FailedEnqueueLeavesEventMarked ==
    \A r \in Requests :
        EnqueueFailed(r) =>
            /\ requests[r].marked
            /\ EventKey(requests[r]) \in processedEvents

\* The request was answered 200 with status 'accepted'.
Accepted(r) ==
    /\ requests[r].pc = "replied"
    /\ requests[r].code = 200
    /\ requests[r].status = "accepted"

\* C31: whenever a pull_request event with action opened, reopened or
\* synchronize is answered 200 'accepted', the request has added a
\* PR_ANALYSIS job to the queue for it.
C31_AcceptedMeansJobAdded ==
    \A r \in Requests :
        ( /\ Accepted(r)
          /\ isRelevantEvent(ParsedBody(requests[r].raw).eventType,
                             ParsedBody(requests[r].raw)) ) =>
            requests[r].enqueued

\* What holds: with a queue manager given to the service, an accepted
\* request has added its job; without one, no accepted request has.
AcceptedMeansJobAddedIffQueueManager ==
    \A r \in Requests : Accepted(r) => ( requests[r].enqueued <=> hasQueueManager )

\* In the events listeners received about job j, every `later` event has a
\* `earlier` event before it.
Precedes(j, earlier, later) ==
    \A i \in 1..Len(emitted[j]) :
        emitted[j][i] \in later =>
            \E k \in 1..(i - 1) : emitted[j][k] \in earlier

\* C32: for every job the listeners observe job:created before job:started,
\* and job:started before job:completed or job:failed, under every
\* interleaving of the producer and the worker.
C32_LifecycleEventsInOrder ==
    \A j \in JobIds :
        /\ Precedes(j, { "job:created" }, { "job:started" })
        /\ Precedes(j, { "job:started" }, { "job:completed", "job:failed" })

\* The part of C32 that holds: the worker's own events are in order, every
\* job:completed or job:failed directly follows the job:started of its
\* attempt (job:created may come between them).
StartedBeforeSettled ==
    \A j \in JobIds :
        LET worker == SelectSeq(emitted[j], LAMBDA e : e # "job:created")
        IN \A i \in 1..Len(worker) :
               worker[i] \in { "job:completed", "job:failed" } =>
                   /\ i > 1
                   /\ worker[i - 1] = "job:started"

\* job:created is emitted when the addJob call resumes, not before; by then
\* the job may be started, and even completed, in the eyes of the listeners.
CreatedEmittedWhenAddJobResumes ==
    \A j \in JobIds :
        jobs[j].status # "none" =>
            ( jobs[j].addPc = "awaiting" =>
                  \A i \in 1..Len(emitted[j]) : emitted[j][i] # "job:created" )

\* An addJob call is made in this step.
AddJobIsCalled == \E j \in JobIds, t \in JobTypes : AddJobCalled(j, t)

\* C34: after shutdown() has been called, every addJob call is rejected
\* with an error, creates no job and emits no job:created event, and a
\* second shutdown() call has no effect.
C34_NoJobAfterShutdown ==
    [][ isShuttingDown =>
          /\ AddJobIsCalled =>
                /\ lastCall'.op = "addJob"
                /\ lastCall'.error = "Queue manager is shutting down"
                /\ UNCHANGED << queueVars, queues, shutdownPc, emitted >>
          /\ ShutdownCalled =>
                UNCHANGED << queueVars, queues, isShuttingDown, shutdownPc, emitted >>
          /\ \A j \in JobIds : jobs[j].status = "none" => jobs'[j].status = "none"
          /\ isShuttingDown' ]_vars

\* C34 happens: an addJob call was rejected during the shutdown, while the
\* queues were still being closed.
C34_Witness ==
    /\ isShuttingDown
    /\ shutdownPc = "closing"
    /\ queues = JobTypes
    /\ lastCall = CallThrew("addJob", "Queue manager is shutting down")
    /\ \E j \in JobIds : jobs[j].status = "none"

\* A registerProcessor call is made in this step, and throws.
RegisterProcessorThrows ==
    /\ \E t \in JobTypes : RegisterProcessorCalled(t)
    /\ lastCall'.error # "none"

\* C35: a registerProcessor(type, handler) call that throws leaves the
\* processor registry unchanged, so a later call for the type is not
\* rejected as 'already registered' because of it.
C35_FailedRegistrationLeavesRegistry ==
    [][ RegisterProcessorThrows => UNCHANGED processors ]_vars

\* The part of C35 that holds: a call rejected as 'already registered'
\* changes nothing.
AlreadyRegisteredLeavesRegistry ==
    [][ ( RegisterProcessorThrows
          /\ lastCall'.error = "Processor already registered" ) =>
            UNCHANGED << queueVars, queues, isShuttingDown, shutdownPc, emitted >> ]_vars

\* What the code does instead: a registration that fails for want of a
\* queue has put the type into the registry.
QueueNotFoundRegistersAnyway ==
    [][ \A t \in JobTypes :
          ( RegisterProcessorCalled(t) /\ lastCall'.error = "Queue not found" ) =>
              /\ t \notin processors
              /\ processors' = processors \cup { t } ]_vars


-----------------------------------------------------------------------------
(* GitHubAuth: the cache of installation tokens (lib/github/auth.ts)        *)
(***************************************************************************)

\* Times are in minutes.  The buffers of getInstallationToken (60000 ms) and
\* of refreshTokenIfNeeded (300000 ms):
TokenBuffer == 1
RefreshBuffer == 5

\* The lifetime of the token the access_tokens request returns (GitHub: one
\* hour), and the steps of the clock.
TokenLifetime == 60
ClockSteps == { 4, 55 }
MaxClock == 63

\* getInstallationToken: the cached token is returned as it is
CachedTokenValid(i) ==
    /\ installationTokens[i] # NoToken
    /\ installationTokens[i] > now + TokenBuffer

\* refreshTokenIfNeeded: the test before getInstallationToken is called
RefreshNeeded(i) ==
    \/ installationTokens[i] = NoToken
    \/ installationTokens[i] <= now + RefreshBuffer

\* The cache after getInstallationToken(i), whose request succeeds or not
TokensAfterGet(i, requestOk) ==
    IF CachedTokenValid(i) \/ ~requestOk THEN installationTokens
    ELSE [ installationTokens EXCEPT ![i] = now + TokenLifetime ]

\* getInstallationToken(i) returns a token
GetReturns(i, requestOk) == CachedTokenValid(i) \/ requestOk

InitAuth ==
    /\ ReviewIdle
    /\ PlanIdle
    /\ QueueIdle
    /\ RetryIdle
    /\ WebhookIdle
    /\ ManagerIdle
    /\ AuthIdle
    /\ ClientIdle
    /\ ContextIdle

\* Time passes; the call that had just ended is no longer the latest event.
ClockAdvances(step) ==
    /\ now + step <= MaxClock
    /\ now' = now + step
    /\ lastAuthCall' = NoAuthCall
    /\ UNCHANGED installationTokens

\* getInstallationToken(installationId)
GetInstallationToken(i, requestOk) ==
    /\ installationTokens' = TokensAfterGet(i, requestOk)
    /\ lastAuthCall' = [ op |-> "getInstallationToken", installation |-> i,
                         returned |-> GetReturns(i, requestOk) ]
    /\ UNCHANGED now

\* refreshTokenIfNeeded(installationId)
RefreshTokenIfNeeded(i, requestOk) ==
    /\ installationTokens' =
           IF RefreshNeeded(i) THEN TokensAfterGet(i, requestOk)
           ELSE installationTokens
    /\ lastAuthCall' = [ op |-> "refreshTokenIfNeeded", installation |-> i,
                         returned |-> ( RefreshNeeded(i) => GetReturns(i, requestOk) ) ]
    /\ UNCHANGED now

\* clearTokenCache(installationId)
ClearTokenCache(i) ==
    /\ installationTokens' = [ installationTokens EXCEPT ![i] = NoToken ]
    /\ lastAuthCall' = [ op |-> "clearTokenCache", installation |-> i,
                         returned |-> TRUE ]
    /\ UNCHANGED now

NextAuth ==
    \/ \E step \in ClockSteps : ClockAdvances(step) /\ UNCHANGED exceptAuthVars
    \/ \E i \in Installations, ok \in BOOLEAN :
          GetInstallationToken(i, ok) /\ UNCHANGED exceptAuthVars
    \/ \E i \in Installations, ok \in BOOLEAN :
          RefreshTokenIfNeeded(i, ok) /\ UNCHANGED exceptAuthVars
    \/ \E i \in Installations : ClearTokenCache(i) /\ UNCHANGED exceptAuthVars

SpecAuth == InitAuth /\ [][NextAuth]_vars

\* refreshTokenIfNeeded(i) has just returned without throwing.
JustRefreshed(i) ==
    /\ lastAuthCall.op = "refreshTokenIfNeeded"
    /\ lastAuthCall.installation = i
    /\ lastAuthCall.returned

\* C33: after refreshTokenIfNeeded(installationId) returns successfully,
\* the cached token of the installation expires more than 5 minutes in the
\* future.
C33_RefreshedTokenOutlivesBuffer ==
    \A i \in Installations :
        JustRefreshed(i) =>
            /\ installationTokens[i] # NoToken
            /\ installationTokens[i] > now + RefreshBuffer

\* What holds: the token cached after a successful refresh expires more
\* than one minute in the future, the buffer of getInstallationToken.
RefreshedTokenOutlivesTokenBuffer ==
    \A i \in Installations :
        JustRefreshed(i) =>
            /\ installationTokens[i] # NoToken
            /\ installationTokens[i] > now + TokenBuffer

-----------------------------------------------------------------------------
(* GitHubClient.withRetry (lib/github/client.ts)                            *)
(***************************************************************************)

MaxRetriesArgument == 3     \* the largest maxRetries given to withRetry

\* What an invocation of the operation may throw: an error by its status,
\* and for 403 whether response.data.message includes 'rate limit'.
ApiErrors == { "401", "403 rate limit", "403", "404", "500" }

\* The error object thrown by the n-th invocation of the operation.
ErrorOf(status, n) == [ kind |-> "threw", source |-> "operation", status |-> status, call |-> n ]

\* error.status === 403 && error.response?.data?.message?.includes('rate limit')
IsRateLimit(err) == err.status = "403 rate limit"

InitClient ==
    /\ ReviewIdle
    /\ PlanIdle
    /\ QueueIdle
    /\ RetryIdle
    /\ WebhookIdle
    /\ ManagerIdle
    /\ AuthIdle
    /\ ContextIdle
    /\ maxRetries \in 0..MaxRetriesArgument
    /\ withRetryPc = "idle"
    /\ attempt = 0
    /\ operationCalls = 0
    /\ operationError = NoOutcome
    /\ withRetryOutcome = NoOutcome

\* withRetry(operation, installationId, maxRetries) up to the first
\* await operation()
WithRetryCalled ==
    /\ withRetryPc = "idle"
    /\ withRetryPc' = "operation"
    /\ operationCalls' = 1
    /\ UNCHANGED << maxRetries, attempt, operationError, withRetryOutcome >>

\* operation() resolves: withRetry returns its result
ApiCallReturns ==
    /\ withRetryPc = "operation"
    /\ withRetryPc' = "done"
    /\ withRetryOutcome' = [ kind |-> "returned", call |-> operationCalls ]
    /\ UNCHANGED << maxRetries, attempt, operationCalls, operationError >>

\* The catch block of withRetry: what follows the error of this attempt
AfterApiCallThrows(err) ==
    IF err.status = "401" /\ attempt < maxRetries THEN "refresh"
    ELSE IF IsRateLimit(err) THEN "throw"
    ELSE IF attempt < maxRetries THEN "sleep"
    ELSE "throw"

\* operation() rejects: the catch block up to its next await, or its throw
ApiCallThrows(status) ==
    /\ withRetryPc = "operation"
    /\ LET err == ErrorOf(status, operationCalls)
           next == AfterApiCallThrows(err)
       IN /\ operationError' = err
          /\ withRetryPc' = IF next = "throw" THEN "done" ELSE next
          /\ withRetryOutcome' = IF next = "throw" THEN err ELSE withRetryOutcome
    /\ UNCHANGED << maxRetries, attempt, operationCalls >>

\* auth.refreshTokenIfNeeded resolved, or the backoff sleep is over:
\* continue, the next iteration invokes the operation
NextAttempt ==
    /\ withRetryPc \in { "refresh", "sleep" }
    /\ withRetryPc' = "operation"
    /\ attempt' = attempt + 1
    /\ operationCalls' = operationCalls + 1
    /\ UNCHANGED << maxRetries, operationError, withRetryOutcome >>

\* auth.refreshTokenIfNeeded rejected (getInstallationToken threw): the
\* error leaves the catch block and withRetry
RefreshThrows ==
    /\ withRetryPc = "refresh"
    /\ withRetryPc' = "done"
    /\ withRetryOutcome' = [ kind |-> "threw", source |-> "refreshTokenIfNeeded",
                             status |-> "token", call |-> operationCalls ]
    /\ UNCHANGED << maxRetries, attempt, operationCalls, operationError >>

NextClient ==
    \/ WithRetryCalled /\ UNCHANGED exceptClientVars
    \/ ApiCallReturns /\ UNCHANGED exceptClientVars
    \/ \E status \in ApiErrors : ApiCallThrows(status) /\ UNCHANGED exceptClientVars
    \/ NextAttempt /\ UNCHANGED exceptClientVars
    \/ RefreshThrows /\ UNCHANGED exceptClientVars

SpecClient == InitClient /\ [][NextClient]_vars

WithRetryDone == withRetryPc = "done"

\* C38: withRetry invokes the operation at most maxRetries + 1 times,
\* returns the result of the first successful invocation, otherwise throws
\* the last error of the operation, and never invokes the operation again
\* after a rate-limit (403) error.
C38_WithRetryBoundedAndThrowsLastError ==
    /\ operationCalls <= maxRetries + 1
    /\ WithRetryDone =>
          \/ withRetryOutcome = [ kind |-> "returned", call |-> operationCalls ]
          \/ withRetryOutcome = operationError
    /\ ( operationError # NoOutcome /\ IsRateLimit(operationError) ) =>
          operationCalls = operationError.call

\* The parts of C38 that hold: the bound on the invocations, the result of
\* the first successful invocation, and no invocation after a 403 whose
\* message includes 'rate limit'.
WithRetryBounded ==
    /\ operationCalls <= maxRetries + 1
    /\ ( WithRetryDone /\ withRetryOutcome.kind = "returned" ) =>
          /\ withRetryOutcome.call = operationCalls
          /\ operationError # NoOutcome => operationError.call = operationCalls - 1
    /\ ( operationError # NoOutcome /\ IsRateLimit(operationError) ) =>
          /\ operationCalls = operationError.call
          /\ WithRetryDone
          /\ withRetryOutcome = operationError

\* What withRetry throws: the error of the last invocation, or the error of
\* refreshTokenIfNeeded after a 401, with retries left unused.
ThrowsLastErrorOrRefreshError ==
    ( WithRetryDone /\ withRetryOutcome.kind = "threw" ) =>
        \/ withRetryOutcome = operationError
        \/ /\ withRetryOutcome.source = "refreshTokenIfNeeded"
           /\ operationError.status = "401"
           /\ operationError.call = operationCalls
           /\ attempt < maxRetries

-----------------------------------------------------------------------------
(* ContextManager.prioritizeChanges (lib/ai-service/context-manager.ts)     *)
(*                                                                         *)
(* A hunk is modelled by the lengths of the lines of hunk.content and the   *)
(* lengths of hunk.context.before and hunk.context.after (0: not given).   *)
(***************************************************************************)

\* estimateTokens(content, 'code'): Math.ceil(content.length * 0.4)
estimateTokens(length) == (length * 4 + 9) \div 10

\* lines.join('\n').length
JoinedLength(lines) ==
    IF lines = << >> THEN 0 ELSE SumOf(lines) + Len(lines) - 1

\* estimateChangeTokens(change) of ContextManager
estimateChangeTokensOfHunks(change) ==
    50 + SumOf([ k \in 1..Len(change.hunks) |->
                   estimateTokens(JoinedLength(change.hunks[k].lines))
                   + (IF change.hunks[k].before > 0
                      THEN estimateTokens(change.hunks[k].before) ELSE 0)
                   + (IF change.hunks[k].after > 0
                      THEN estimateTokens(change.hunks[k].after) ELSE 0) ])

\* estimateFindingsTokens(findings)
estimateFindingsTokens(fs) == Len(fs) * 50

\* getSeverityScore(severity)
getSeverityScore(severity) ==
    CASE severity = "critical" -> 4
      [] severity = "high" -> 3
      [] severity = "medium" -> 2
      [] severity = "low" -> 1
      [] OTHER -> 0

\* fileSeverityMap.get(file) || 0
FileSeverity(file, fs) ==
    LET scores == { getSeverityScore(fs[k].severity) :
                      k \in { i \in 1..Len(fs) : fs[i].file = file } }
    IN IF scores = {} THEN 0 ELSE CHOOSE s \in scores : \A t \in scores : t <= s

TypeOrder(changeType) ==
    CASE changeType = "modified" -> 0
      [] changeType = "added" -> 1
      [] OTHER -> 2

HunksSize(change) ==
    SumOf([ k \in 1..Len(change.hunks) |-> JoinedLength(change.hunks[k].lines) ])

\* The comparator of prioritizeChangesByImportance: a negative number when
\* a sorts before b.
CompareImportance(a, b, fs) ==
    IF FileSeverity(a.file, fs) # FileSeverity(b.file, fs)
    THEN FileSeverity(b.file, fs) - FileSeverity(a.file, fs)
    ELSE IF TypeOrder(a.changeType) # TypeOrder(b.changeType)
    THEN TypeOrder(a.changeType) - TypeOrder(b.changeType)
    ELSE HunksSize(a) - HunksSize(b)

\* Array.prototype.sort with the comparator (stable): insertion of each
\* change behind the changes that do not sort after it.
RECURSIVE InsertByImportance(_, _, _)
InsertByImportance(sorted, change, fs) ==
    IF sorted = << >> THEN << change >>
    ELSE IF CompareImportance(change, sorted[Len(sorted)], fs) >= 0
    THEN Append(sorted, change)
    ELSE Append(InsertByImportance(SubSeq(sorted, 1, Len(sorted) - 1), change, fs),
                sorted[Len(sorted)])

RECURSIVE SortByImportance(_, _, _)
SortByImportance(changes, fs, sorted) ==
    IF changes = << >> THEN sorted
    ELSE SortByImportance(Tail(changes), fs,
                          InsertByImportance(sorted, Head(changes), fs))

prioritizeChangesByImportance(changes, fs) == SortByImportance(changes, fs, << >>)

\* truncateChange: the hunk cut to the first half of its lines, followed by
\* '\n... (truncated)'
TruncatedHunk(hunk) ==
    LET half == Len(hunk.lines) \div 2
    IN [ hunk EXCEPT !.lines = (IF half = 0 THEN << 0 >>
                                ELSE SubSeq(hunk.lines, 1, half)) \o << 15 >> ]

\* truncateChange: the for loop over change.hunks; st is
\* [hunks, currentTokens, stopped]
RECURSIVE TruncateLoop(_, _, _)
TruncateLoop(hunks, maxTokens, st) ==
    IF hunks = << >> \/ st.stopped THEN st
    ELSE LET hunk == Head(hunks)
             hunkTokens == estimateTokens(JoinedLength(hunk.lines))
         IN TruncateLoop(Tail(hunks), maxTokens,
                IF st.currentTokens + hunkTokens <= maxTokens
                THEN [ st EXCEPT !.hunks = Append(@, hunk),
                                 !.currentTokens = @ + hunkTokens ]
                ELSE IF st.currentTokens + 100 <= maxTokens
                THEN [ st EXCEPT !.hunks = Append(@, TruncatedHunk(hunk)),
                                 !.stopped = TRUE ]
                ELSE st)

NoChange == [ none |-> TRUE ]

\* truncateChange(change, maxTokens); NoChange models null
truncateChange(change, maxTokens) ==
    IF maxTokens < 100 THEN NoChange
    ELSE LET st == TruncateLoop(change.hunks, maxTokens,
                       [ hunks |-> << >>, currentTokens |-> 50, stopped |-> FALSE ])
         IN IF Len(st.hunks) > 0 THEN [ change EXCEPT !.hunks = st.hunks ]
            ELSE NoChange

\* prioritizeChanges: the for loop; st is
\* [includedChanges, excludedChanges, currentTokens]
RECURSIVE SliceLoop(_, _, _)
SliceLoop(changes, availableTokens, st) ==
    IF changes = << >> THEN st
    ELSE LET change == Head(changes)
             changeTokens == estimateChangeTokensOfHunks(change)
             truncatedChange ==
                 truncateChange(change, availableTokens - st.currentTokens)
         IN SliceLoop(Tail(changes), availableTokens,
                IF st.currentTokens + changeTokens <= availableTokens
                THEN [ st EXCEPT !.includedChanges = Append(@, change),
                                 !.currentTokens = @ + changeTokens ]
                ELSE IF truncatedChange # NoChange
                THEN [ st EXCEPT !.includedChanges = Append(@, truncatedChange),
                                 !.currentTokens =
                                     @ + estimateChangeTokensOfHunks(truncatedChange) ]
                ELSE [ st EXCEPT !.excludedChanges = Append(@, change) ])

\* prioritizeChanges(changes, findings, systemPromptTokens), with
\* availableTokens = getAvailableTokens() - systemPromptTokens
prioritizeChanges(changes, fs, availableTokens) ==
    LET criticalFindings ==
            SelectSeq(fs, LAMBDA f : f.severity = "critical" \/ f.severity = "high")
        findingsTokens == estimateFindingsTokens(criticalFindings)
        st == SliceLoop(prioritizeChangesByImportance(changes, fs), availableTokens,
                        [ includedChanges |-> << >>, excludedChanges |-> << >>,
                          currentTokens |-> findingsTokens ])
    IN [ includedChanges |-> st.includedChanges,
         excludedChanges |-> st.excludedChanges,
         tokenUsage |-> [ changes |-> st.currentTokens - findingsTokens,
                          findings |-> findingsTokens ] ]

\* The inputs of the model.  Hunks: a short one (one line of 100
\* characters), the same with 200 characters of context before it, and a
\* long one (two lines of 1000 characters).
HunkChoices ==
    { [ lines |-> << 100 >>, before |-> 0, after |-> 0 ],
      [ lines |-> << 100 >>, before |-> 200, after |-> 0 ],
      [ lines |-> << 1000, 1000 >>, before |-> 0, after |-> 0 ] }

SliceFiles == { "a.ts", "b.ts" }

SliceChanges ==
    { [ file |-> f, changeType |-> t, hunks |-> hs ] :
        f \in SliceFiles, t \in { "modified", "added" },
        hs \in { << h >> : h \in HunkChoices }
               \cup { << h, g >> : h, g \in HunkChoices } }

SliceChangeLists ==
    { << c >> : c \in { c \in SliceChanges : c.file = "a.ts" } }
    \cup { << c, e >> : c \in { c \in SliceChanges : c.file = "a.ts" },
                        e \in { e \in SliceChanges :
                                  e.file = "b.ts" /\ e.changeType = "modified"
                                  /\ Len(e.hunks) = 1 } }

\* Findings on a.ts: none, one high, or MaxFindings critical ones.
MaxFindings == 4

SliceFindingLists ==
    { << >>,
      << [ file |-> "a.ts", severity |-> "high" ] >>,
      [ k \in 1..MaxFindings |-> [ file |-> "a.ts", severity |-> "critical" ] ] }

SliceBudgets == { 150, 250, 1000 }

InitSlice ==
    /\ ReviewIdle
    /\ PlanIdle
    /\ QueueIdle
    /\ RetryIdle
    /\ WebhookIdle
    /\ ManagerIdle
    /\ AuthIdle
    /\ ClientIdle
    /\ ctxChanges \in SliceChangeLists
    /\ ctxFindings \in SliceFindingLists
    /\ ctxAvailable \in SliceBudgets
    /\ ctxPc = "input"
    /\ ctxOut = [none |-> TRUE]

\* One call of prioritizeChanges on the inputs.
PrioritizeChanges ==
    /\ ctxPc = "input"
    /\ ctxPc' = "sliced"
    /\ ctxOut' = prioritizeChanges(ctxChanges, ctxFindings, ctxAvailable)
    /\ UNCHANGED << ctxChanges, ctxFindings, ctxAvailable >>
    /\ UNCHANGED exceptContextVars

NextSlice == PrioritizeChanges

SpecSlice == InitSlice /\ [][NextSlice]_vars

Sliced == ctxPc = "sliced"

\* The estimated tokens of the included changes, recomputed from them.
IncludedTokens ==
    SumOf([ k \in 1..Len(ctxOut.includedChanges) |->
              estimateChangeTokensOfHunks(ctxOut.includedChanges[k]) ])

\* C39: the estimated tokens of all included changes, truncated ones
\* included, plus the counted findings tokens never exceed the available
\* budget.
C39_IncludedWithinBudget ==
    Sliced => IncludedTokens + ctxOut.tokenUsage.findings <= ctxAvailable

\* Every hunk of the change is a whole hunk of the input, without context.
WholeHunksWithoutContext(change) ==
    \A h \in 1..Len(change.hunks) :
        /\ change.hunks[h] \in HunkChoices
        /\ change.hunks[h].before = 0
        /\ change.hunks[h].after = 0

\* The part of C39 that holds: tokenUsage.changes is the estimate of what
\* was included; and when the counted findings fit the budget and the
\* included changes hold only whole hunks without context, the total is
\* within the budget.
WithinBudgetWithoutTruncation ==
    Sliced =>
        /\ ctxOut.tokenUsage.changes = IncludedTokens
        /\ ( /\ ctxOut.tokenUsage.findings <= ctxAvailable
             /\ \A k \in 1..Len(ctxOut.includedChanges) :
                   WholeHunksWithoutContext(ctxOut.includedChanges[k]) ) =>
               IncludedTokens + ctxOut.tokenUsage.findings <= ctxAvailable

\* C39 for calls whose counted findings fit the budget.  It fails as well:
\* the cut hunk is never measured against the tokens that are left.
WithinBudgetWhenFindingsFit ==
    ( Sliced /\ ctxOut.tokenUsage.findings <= ctxAvailable ) =>
        IncludedTokens + ctxOut.tokenUsage.findings <= ctxAvailable

=============================================================================
